---- MODULE Spec2Model ----
(***************************************************************************)
(* A model of the CLIProxy gateway's request path:                         *)
(*   - the amp ResponseRewriter (model-name rewrite of responses),         *)
(*   - the config-api-key access provider (Authenticate),                  *)
(*   - the reconciliation of access providers on a config reload,          *)
(*   - the thinking budget / effort conversions.                           *)
(* Each subsystem has its own specification over its own variables; the    *)
(* variables of the other subsystems stay at their initial value.          *)
(***************************************************************************)
EXTENDS Integers, Sequences, FiniteSets, TLC

VARIABLES
    \* ResponseRewriter (amp)
    originalModel,   \* rw.originalModel
    contentType,     \* the Content-Type header of the wrapped writer
    isStreaming,     \* rw.isStreaming
    body,            \* rw.body (bytes.Buffer)
    client,          \* what the wrapped gin.ResponseWriter has received
    upstream,        \* the bytes the handler has still to Write
    written,         \* every byte given to Write so far
    flushes,         \* the number of Flush calls so far
    \* config-api-key provider
    name,            \* provider.name
    keys,            \* provider.keys
    request,         \* the last request given to Authenticate
    authResult,      \* what Authenticate returned for it
    \* access manager and config reload
    cfg,             \* the configuration the server holds
    oldCfg,          \* the configuration before the last reload
    aliased,         \* whether the last reload passed the old config object itself
    manager,         \* manager.Providers()
    existing,        \* manager.Providers() before the last reload
    reconciled,      \* what the last ReconcileProviders returned
    applied,         \* what the last ApplyAccessProviders returned
    \* thinking budget / effort conversions
    thModel,         \* the model the conversion is for
    thBudget,        \* the budget given to ThinkingBudgetToEffort
    thEffort,        \* the effort name given to ThinkingEffortToBudget
    toEffort,        \* what ThinkingBudgetToEffort(model, budget) returned
    toBudget,        \* what ThinkingEffortToBudget(model, effort) returned
    roundTrip,       \* what ThinkingBudgetToEffort returned for toBudget
    \* a request prepared for a target protocol
    fromProtocol,    \* the protocol of the client's request
    toProtocol,      \* the protocol of the upstream
    targetModel,     \* the base model of the request
    thinkingParam,   \* the thinking suffix or raw thinking parameter of the request
    viaSuffix,       \* whether the parameter came as a suffix of the model name
    payload,         \* the thinking field of the prepared body, and the error
    \* the Gemini 3 thinking-level functions
    g3Model,         \* the model of the request
    g3Level,         \* the thinking level asked for
    g3Metadata,      \* the metadata of the request
    g3InputBody,     \* the thinking fields of the request body
    g3CLI,           \* whether the body is a Gemini CLI body
    g3Validated,     \* what ValidateGemini3ThinkingLevel returned
    g3Normalized,    \* what NormalizeGeminiThinkingBudget returned
    g3Applied,       \* what ApplyGemini3ThinkingLevelFromMetadata returned
    \* the donation site
    donationCfg,     \* how the session store and the handler were constructed
    ttl,             \* SessionStore.ttl
    quotaAmount,     \* DonationHandler.quotaAmount
    now,             \* the clock
    issued,          \* the session tokens generated so far
    sessions,        \* the keys of SessionStore.sessions
    sessionObjects,  \* the Session each token points to
    bindings,        \* BindingStore.bindings: new-api user id by Linux Do ID
    reqs,            \* the requests: position, cookie, context, answer
    \* roles and admin-only checks
    isConfigured,    \* DonationModule.isConfigured
    roleService,     \* the RoleService: its admin ids and lowercased admin usernames
    ctxSession,      \* the session in the request's context
    roleCheck,       \* the last role check and what it answered
    determined,      \* the last DetermineRole call and what it returned
    \* the OAuth login and callback
    oauthCookie,     \* the oauth_state cookie the handlers have set last
    loginResponse,   \* what HandleLogin answered last
    cbQuery,         \* the last callback request and what the identity provider answers to it
    cbCalls,         \* the calls the last callback made, in order
    cbResponse,      \* what the last callback answered
    cbSessions,      \* the sessions SessionStore.Create has stored for callbacks
    \* the binding store and its file
    storeBindings,   \* BindingStore.bindings, as the set of its values
    bindingsJSON,    \* the bindings file: whether it exists and its "bindings" array
    bindNow,         \* the wall clock of the binding store
    bindSaved,       \* the bindings the store held at its last successful save
    bindLast,        \* the last call on the store, the binding it found and its error
    \* the composite translator edge openai_responses -> antigravity
    trInput,         \* the model name, the bytes and the stream flag the caller passed
    trHeap,          \* the byte slices of the call: the caller's, the clone, the Gemini request
    trResult,        \* what ConvertOpenAIResponsesRequestToAntigravity returned
    \* the configuration file and its legacy fields
    configFile,      \* the fields of the configuration file
    configBefore,    \* the file as it was before the last LoadConfig
    loadedConfig     \* what the last LoadConfig returned

rwVars == <<originalModel, contentType, isStreaming, body, client, upstream, written, flushes>>
authVars == <<name, keys, request, authResult>>
accessVars == <<cfg, oldCfg, aliased, manager, existing, reconciled, applied>>
pipeVars == <<fromProtocol, toProtocol, targetModel, thinkingParam, payload, viaSuffix>>
thinkVars == <<thModel, thBudget, thEffort, toEffort, toBudget, roundTrip>>
g3Vars == <<g3Model, g3Level, g3Metadata, g3InputBody, g3CLI, g3Validated, g3Normalized, g3Applied>>
donationVars == <<donationCfg, ttl, quotaAmount, now, issued, sessions, sessionObjects, bindings, reqs>>
roleVars == <<isConfigured, roleService, ctxSession, roleCheck, determined>>
callbackVars == <<oauthCookie, loginResponse, cbQuery, cbCalls, cbResponse, cbSessions>>
bindingVars == <<storeBindings, bindingsJSON, bindNow, bindSaved, bindLast>>
translatorVars == <<trInput, trHeap, trResult>>
migrationVars == <<configFile, configBefore, loadedConfig>>

(***************************************************************************)
(* Bytes.  A response is a sequence of tokens; a token stands for a run of *)
(* bytes that this model never cuts: the "data:" of an SSE line, a space,  *)
(* the braces of the JSON object, a newline, other text, and a JSON field  *)
(* (its path and its string value).                                        *)
(***************************************************************************)
Tok(k, p, v) == [k |-> k, path |-> p, val |-> v]
DATA == Tok("data:", "", "")
SP == Tok(" ", "", "")
LB == Tok("{", "", "")
RB == Tok("}", "", "")
NL == Tok("\n", "", "")
DONE == Tok("[DONE]", "", "")
Fld(p, v) == Tok("field", p, v)

\* middleware.go:214
modelFieldPaths == <<"model", "modelVersion", "response.modelVersion", "message.model">>

PathSet == {modelFieldPaths[i] : i \in DOMAIN modelFieldPaths}

\* bytes.Split(chunk, "\n"): the lines of a chunk, one more than its newlines
RECURSIVE SplitNL(_)
SplitNL(s) ==
    IF \A i \in DOMAIN s : s[i] # NL THEN <<s>>
    ELSE LET i == CHOOSE j \in DOMAIN s : s[j] = NL /\ \A h \in 1..(j - 1) : s[h] # NL
         IN <<SubSeq(s, 1, i - 1)>> \o SplitNL(SubSeq(s, i + 1, Len(s)))

\* bytes.Join(lines, "\n")
RECURSIVE JoinNL(_)
JoinNL(lines) ==
    IF Len(lines) = 0 THEN <<>>
    ELSE IF Len(lines) = 1 THEN lines[1]
    ELSE lines[1] \o <<NL>> \o JoinNL(Tail(lines))

\* bytes.HasPrefix(line, "data: ")
HasDataPrefix(line) == Len(line) >= 2 /\ line[1] = DATA /\ line[2] = SP

\* The end of the JSON value gjson reads at the start of data: the first
\* closing brace, or the end of the data when the object is cut short (gjson
\* reads the members it finds and asks for no closing brace).
ObjEnd(data) ==
    IF \E i \in DOMAIN data : data[i] = RB
    THEN CHOOSE i \in DOMAIN data : data[i] = RB /\ \A h \in 1..(i - 1) : data[h] # RB
    ELSE Len(data) + 1

\* gjson.GetBytes(data, path).Exists()
PathExists(data, path) ==
    /\ Len(data) >= 1
    /\ data[1] = LB
    /\ \E i \in 2..(ObjEnd(data) - 1) : data[i].k = "field" /\ data[i].path = path

\* sjson.SetBytes(data, path, value): the first member at path gets the value
SetPath(data, path, value) ==
    IF ~PathExists(data, path) THEN data
    ELSE LET i == CHOOSE j \in 2..(ObjEnd(data) - 1) :
                     /\ data[j].k = "field" /\ data[j].path = path
                     /\ \A h \in 2..(j - 1) : ~(data[h].k = "field" /\ data[h].path = path)
         IN [data EXCEPT ![i] = Fld(path, value)]

RECURSIVE RewritePaths(_, _, _)
RewritePaths(data, model, n) ==
    IF n > Len(modelFieldPaths) THEN data
    ELSE RewritePaths(IF PathExists(data, modelFieldPaths[n])
                      THEN SetPath(data, modelFieldPaths[n], model)
                      ELSE data,
                      model, n + 1)

\* ResponseRewriter.rewriteModelInResponse
rewriteModelInResponse(data, model) ==
    IF model = "" THEN data ELSE RewritePaths(data, model, 1)

\* the loop body of rewriteStreamChunk, for one line
rewriteLine(line, model) ==
    IF HasDataPrefix(line)
    THEN LET jsonData == SubSeq(line, 3, Len(line))
         IN IF Len(jsonData) > 0 /\ jsonData[1] = LB
            THEN <<DATA, SP>> \o rewriteModelInResponse(jsonData, model)
            ELSE line
    ELSE line

\* ResponseRewriter.rewriteStreamChunk
rewriteStreamChunk(chunk, model) ==
    IF model = "" THEN chunk
    ELSE LET lines == SplitNL(chunk)
         IN JoinNL([i \in DOMAIN lines |-> rewriteLine(lines[i], model)])

\* strings.Contains(contentType, "text/event-stream") || strings.Contains(contentType, "stream")
IsStreamType(ct) == ct \in {"text/event-stream", "application/octet-stream"}

(***************************************************************************)
(* The responses the upstream sends.                                       *)
(***************************************************************************)
MaxChunk == 7

UpModel == "mapped-model"
Models == {"", "requested-model"}
ContentTypes == {"text/event-stream", "application/json"}

Event(fields) == <<DATA, SP, LB>> \o fields \o <<RB, NL, NL>>
DoneEvent == <<DATA, SP, DONE, NL, NL>>

SseStreams ==
    {Event(<<Fld(p, UpModel)>>) \o DoneEvent : p \in PathSet}
    \cup {Event(<<Fld("id", "x"), Fld("model", UpModel)>>) \o Event(<<Fld("modelVersion", UpModel)>>)}
    \cup {Event(<<Fld("id", "x")>>) \o Event(<<Fld("message.model", UpModel), Fld("model", UpModel)>>)}

JsonBodies ==
    {<<LB, Fld(p, UpModel), Fld("id", "x"), RB>> : p \in PathSet}
    \cup {<<LB, Fld("model", UpModel), Fld("response.modelVersion", UpModel), RB, NL>>}

\* NewResponseRewriter
InitRewriter ==
    /\ originalModel \in Models
    /\ contentType \in ContentTypes
    /\ upstream \in (IF IsStreamType(contentType) THEN SseStreams ELSE JsonBodies)
    /\ isStreaming = FALSE
    /\ body = <<>>
    /\ client = <<>>
    /\ written = <<>>
    /\ flushes = 0

\* ResponseRewriter.Write(data), data the next n tokens of the response
Write(n) ==
    /\ n <= Len(upstream)
    /\ LET data == SubSeq(upstream, 1, n)
           streaming == IF Len(body) = 0 /\ ~isStreaming
                        THEN IsStreamType(contentType)
                        ELSE isStreaming
       IN /\ isStreaming' = streaming
          /\ IF streaming
             THEN /\ client' = client \o rewriteStreamChunk(data, originalModel)
                  /\ body' = body
             ELSE /\ body' = body \o data
                  /\ client' = client
          /\ written' = written \o data
          /\ upstream' = SubSeq(upstream, n + 1, Len(upstream))
    /\ UNCHANGED <<originalModel, contentType, flushes>>

MaxFlush == 2

\* ResponseRewriter.Flush
Flush ==
    /\ flushes < MaxFlush
    /\ flushes' = flushes + 1
    /\ IF isStreaming
       THEN client' = client
       ELSE IF Len(body) > 0
            THEN client' = client \o rewriteModelInResponse(body, originalModel)
            ELSE client' = client
    /\ UNCHANGED <<originalModel, contentType, isStreaming, body, upstream, written>>

(***************************************************************************)
(* The config-api-key access provider.  A header or parameter value is a   *)
(* sequence of words and single spaces; the empty sequence is "".          *)
(***************************************************************************)
\* sdkconfig.DefaultAccessProviderName
DefaultAccessProviderName == "config-inline"

\* strings.ToLower, on the words of this model
Lower(w) ==
    CASE w \in {"Bearer", "BEARER", "bearer"} -> "bearer"
      [] w \in {"Basic", "basic"} -> "basic"
      [] w \in {"config-api-key", "Config-API-Key"} -> "config-api-key"
      [] w \in {"ldap", "LDAP"} -> "ldap"
      [] w \in {"LOW", "Low", "low"} -> "low"
      [] w \in {"MEDIUM", "medium"} -> "medium"
      [] w \in {"HIGH", "High", "high"} -> "high"
      [] w \in {"XHIGH", "xhigh"} -> "xhigh"
      [] w \in {"Minimal", "minimal"} -> "minimal"
      [] w \in {"AUTO", "auto"} -> "auto"
      [] w \in {"None", "none"} -> "none"
      [] w \in {"Ultra", "ultra"} -> "ultra"
      [] w \in {"Alice", "ALICE", "alice"} -> "alice"
      [] OTHER -> w

LowerSeq(s) == [i \in DOMAIN s |-> Lower(s[i])]

\* strings.TrimSpace
RECURSIVE TrimLeft(_)
TrimLeft(s) == IF Len(s) > 0 /\ s[1] = " " THEN TrimLeft(Tail(s)) ELSE s
RECURSIVE TrimRight(_)
TrimRight(s) == IF Len(s) > 0 /\ s[Len(s)] = " " THEN TrimRight(SubSeq(s, 1, Len(s) - 1)) ELSE s
TrimSpace(s) == TrimRight(TrimLeft(s))

\* strings.SplitN(header, " ", 2)
SplitN2(s) ==
    IF \A i \in DOMAIN s : s[i] # " " THEN <<s>>
    ELSE LET i == CHOOSE j \in DOMAIN s : s[j] = " " /\ \A h \in 1..(j - 1) : s[h] # " "
         IN <<SubSeq(s, 1, i - 1), SubSeq(s, i + 1, Len(s))>>

extractBearerTokenCaseSensitive(header) ==
    IF header = <<>> THEN <<>>
    ELSE LET parts == SplitN2(header)
         IN IF Len(parts) # 2 THEN header
            ELSE IF parts[1] # <<"bearer">> THEN header
            ELSE TrimSpace(parts[2])

\* extractBearerToken
extractBearerToken(header) ==
    IF header = <<>> THEN <<>>
    ELSE LET parts == SplitN2(header)
         IN IF Len(parts) # 2 THEN header
            ELSE IF LowerSeq(parts[1]) # <<"bearer">> THEN header
            ELSE TrimSpace(parts[2])

\* newProvider: the key set of a provider built from cfg.APIKeys
newProviderKeys(apiKeys) == {apiKeys[i] : i \in DOMAIN apiKeys} \ {<<>>}

\* newProvider: the name of a provider built from cfg.Name
newProviderName(cfgName) == IF cfgName = "" THEN DefaultAccessProviderName ELSE cfgName

\* provider.Identifier
Identifier(n) == IF n = "" THEN DefaultAccessProviderName ELSE n

NoResult == [outcome |-> "pending", provider |-> "", principal |-> <<>>, source |-> ""]
Failure(err) == [outcome |-> err, provider |-> "", principal |-> <<>>, source |-> ""]

\* the candidates of provider.Authenticate, in the order it tries them
Candidates(r) ==
    << [value |-> extractBearerToken(r.authorization), source |-> "authorization"],
       [value |-> r.goog, source |-> "x-goog-api-key"],
       [value |-> r.anthropic, source |-> "x-api-key"],
       [value |-> r.queryKey, source |-> "query-key"],
       [value |-> r.queryAuthToken, source |-> "query-auth-token"] >>

AuthenticateCredentialsFirst(n, ks, r) ==
    IF /\ r.authorization = <<>> /\ r.goog = <<>> /\ r.anthropic = <<>>
       /\ r.queryKey = <<>> /\ r.queryAuthToken = <<>>
    THEN Failure("no_credentials")
    ELSE IF ks = {} THEN Failure("not_handled")
    ELSE LET c == Candidates(r)
             hit(i) == c[i].value # <<>> /\ c[i].value \in ks
         IN IF \E i \in DOMAIN c : hit(i)
            THEN LET i == CHOOSE j \in DOMAIN c : hit(j) /\ \A h \in 1..(j - 1) : ~hit(h)
                 IN [outcome |-> "ok", provider |-> Identifier(n),
                     principal |-> c[i].value, source |-> c[i].source]
            ELSE Failure("invalid_credential")
\* provider.Authenticate
Authenticate(n, ks, r) ==
    IF ks = {} THEN Failure("not_handled")
    ELSE IF /\ r.authorization = <<>> /\ r.goog = <<>> /\ r.anthropic = <<>>
            /\ r.queryKey = <<>> /\ r.queryAuthToken = <<>>
    THEN Failure("no_credentials")
    ELSE LET c == Candidates(r)
             hit(i) == c[i].value # <<>> /\ c[i].value \in ks
         IN IF \E i \in DOMAIN c : hit(i)
            THEN LET i == CHOOSE j \in DOMAIN c : hit(j) /\ \A h \in 1..(j - 1) : ~hit(h)
                 IN [outcome |-> "ok", provider |-> Identifier(n),
                     principal |-> c[i].value, source |-> c[i].source]
            ELSE Failure("invalid_credential")

K1 == <<"k1">>
K2 == <<"k2">>
KX == <<"zz">>
ConfigKeys == {<<>>, K1, K2}
MaxKeys == 2
KeyLists == UNION {[1..n -> ConfigKeys] : n \in 0..MaxKeys}
ProviderNames == {"", "p1"}
Presented == {<<>>, K1, KX}
AuthHeaders ==
    {<<>>, <<"Bearer">>, <<"Bearer", " ">>}
    \cup UNION {{k, <<"Bearer", " ", k[1]>>, <<"BEARER", " ", k[1]>>, <<"Basic", " ", k[1]>>,
                 <<"bearer", " ", " ", k[1], " ">>} : k \in {K1, K2, KX}}
Requests ==
    [authorization : AuthHeaders, goog : Presented, anthropic : Presented,
     queryKey : Presented, queryAuthToken : Presented]

InitAuth ==
    /\ \E cfgName \in ProviderNames : name = newProviderName(cfgName)
    /\ \E apiKeys \in KeyLists : keys = newProviderKeys(apiKeys)
    /\ request \in Requests
    /\ authResult = NoResult

\* one call of provider.Authenticate on the request
DoAuthenticate ==
    /\ authResult = NoResult
    /\ authResult' = Authenticate(name, keys, request)
    /\ UNCHANGED <<name, keys, request>>

(***************************************************************************)
(* Access providers and their reconciliation on a config reload.           *)
(* A provider object is [id, cfg, from]: its Identifier(), the config      *)
(* entry it was built from, and, in the output of a reconciliation, the    *)
(* position in the existing list of the very object it is (0 for an object *)
(* built by this reconciliation).                                          *)
(***************************************************************************)
\* sdkconfig.AccessProviderTypeConfigAPIKey
AccessProviderTypeConfigAPIKey == "config-api-key"

\* strings.TrimSpace, on the names and types of this model
TrimStr(w) ==
    CASE w = " " -> ""
      [] w = "ldap " -> "ldap"
      [] OTHER -> w

\* strings.EqualFold
EqualFold(a, b) == Lower(a) = Lower(b)

\* the order of sort.Strings on the identifiers of this model
Rank(id) ==
    CASE id = "LDAP" -> 1
      [] id = "a" -> 2
      [] id = "b" -> 3
      [] id = "c" -> 4
      [] id = "config-inline" -> 5
      [] id = "d" -> 6
      [] id = "ldap" -> 7
      [] OTHER -> 8

RECURSIVE Insert(_, _)
Insert(sorted, id) ==
    IF sorted = <<>> THEN <<id>>
    ELSE IF Rank(id) <= Rank(sorted[1]) THEN <<id>> \o sorted
    ELSE <<sorted[1]>> \o Insert(Tail(sorted), id)

\* sort.Strings
RECURSIVE SortStrings(_)
SortStrings(list) == IF list = <<>> THEN <<>> ELSE Insert(SortStrings(Tail(list)), list[1])

Entry(n, t, ks, c) == [Name |-> n, Type |-> t, SDK |-> "", APIKeys |-> ks, Config |-> c]

\* sdkconfig.MakeInlineAPIKeyProvider; <<>> stands for nil
MakeInlineAPIKeyProvider(apiKeys) ==
    IF Len(apiKeys) = 0 THEN <<>>
    ELSE <<Entry(DefaultAccessProviderName, AccessProviderTypeConfigAPIKey, apiKeys, "")>>

\* the types with a registered factory (configaccess.Register, and one
\* provider type registered by the embedding program)
RegisteredTypes == {AccessProviderTypeConfigAPIKey, "ldap"}

\* providerIdentifier
providerIdentifier(p) ==
    IF TrimStr(p.Name) # "" THEN TrimStr(p.Name)
    ELSE LET typ == TrimStr(p.Type)
         IN IF typ = "" THEN ""
            ELSE IF EqualFold(typ, AccessProviderTypeConfigAPIKey) THEN DefaultAccessProviderName
            ELSE typ

\* the length of a Config map
ConfigLen(c) == IF c = "" THEN 0 ELSE 1

\* the multiset of a key list
Count(list, v) == Cardinality({i \in DOMAIN list : list[i] = v})

\* stringSetEqual
stringSetEqual(a, b) ==
    /\ Len(a) = Len(b)
    /\ \A i \in DOMAIN a : Count(a, a[i]) = Count(b, a[i])

\* providerConfigEqual
providerConfigEqual(a, b) ==
    /\ EqualFold(TrimStr(a.Type), TrimStr(b.Type))
    /\ TrimStr(a.SDK) = TrimStr(b.SDK)
    /\ stringSetEqual(a.APIKeys, b.APIKeys)
    /\ ConfigLen(a.Config) = ConfigLen(b.Config)
    /\ (ConfigLen(a.Config) > 0 => a.Config = b.Config)

\* the positions of the entries a configuration declares
Declared(c) ==
    {i \in DOMAIN c.Providers : c.Providers[i].Type # "" /\ providerIdentifier(c.Providers[i]) # ""}

\* accessProviderMap: identifier -> [entry, at], at the position of the entry
\* in cfg.Access.Providers (0 for the inline provider, a new object each call)
accessProviderMap(c) ==
    IF Declared(c) # {}
    THEN [id \in {providerIdentifier(c.Providers[i]) : i \in Declared(c)} |->
            LET i == CHOOSE j \in Declared(c) :
                         /\ providerIdentifier(c.Providers[j]) = id
                         /\ \A h \in Declared(c) : providerIdentifier(c.Providers[h]) = id => h <= j
            IN [entry |-> c.Providers[i], at |-> i]]
    ELSE LET inline == MakeInlineAPIKeyProvider(c.APIKeys)
         IN IF inline # <<>> /\ providerIdentifier(inline[1]) # ""
            THEN [id \in {providerIdentifier(inline[1])} |-> [entry |-> inline[1], at |-> 0]]
            ELSE [id \in {} |-> 0]

RECURSIVE SelectDeclared(_, _)
SelectDeclared(c, i) ==
    IF i > Len(c.Providers) THEN <<>>
    ELSE (IF i \in Declared(c) THEN <<[entry |-> c.Providers[i], at |-> i]>> ELSE <<>>)
         \o SelectDeclared(c, i + 1)

\* collectProviderEntries
collectProviderEntries(c) ==
    LET entries == SelectDeclared(c, 1)
        inline == MakeInlineAPIKeyProvider(c.APIKeys)
    IN IF Len(entries) = 0 /\ Len(c.APIKeys) > 0 /\ inline # <<>>
       THEN <<[entry |-> inline[1], at |-> 0]>>
       ELSE entries

\* sdkaccess.BuildProvider with the config-api-key factory newProvider; the
\* factory of another registered type names its provider by the entry
BuildProvider(e) ==
    IF e.Type \notin RegisteredTypes THEN [err |-> TRUE, provider |-> <<>>]
    ELSE [err |-> FALSE,
          provider |-> [id |-> IF e.Type = AccessProviderTypeConfigAPIKey
                               THEN newProviderName(e.Name)
                               ELSE providerIdentifier(e),
                        cfg |-> e, from |-> 0]]

\* isInlineProvider
isInlineProvider(id) == EqualFold(id, DefaultAccessProviderName)

\* appendChange
appendChange(list, id) == IF isInlineProvider(id) THEN list ELSE Append(list, id)

\* existingMap: identifier -> the position of the provider in existing
existingMap(ex) ==
    [id \in {ex[i].id : i \in DOMAIN ex} |->
        CHOOSE j \in DOMAIN ex : ex[j].id = id /\ \A h \in DOMAIN ex : ex[h].id = id => h <= j]

Reuse(ex, exMap, key) == [ex[exMap[key]] EXCEPT !.from = exMap[key]]

\* forceRebuild in ReconcileProviders
forceRebuild(e) == EqualFold(TrimStr(e.Type), AccessProviderTypeConfigAPIKey)

NilReconciled == [result |-> <<>>, added |-> <<>>, updated |-> <<>>, removed |-> <<>>,
                  err |-> FALSE, nil |-> TRUE]

\* the loop of ReconcileProviders over newEntries, from entry n on
RECURSIVE ReconcileLoop(_, _, _, _, _, _)
ReconcileLoop(newEntries, n, oldMap, sameObject, ex, acc) ==
    IF n > Len(newEntries) \/ acc.err THEN acc
    ELSE LET providerCfg == newEntries[n].entry
             key == providerIdentifier(providerCfg)
             exMap == existingMap(ex)
             hadOld == key \in DOMAIN oldMap
             isAliased == hadOld /\ sameObject /\ newEntries[n].at # 0
                                 /\ oldMap[key].at = newEntries[n].at
             reuse == /\ hadOld
                      /\ ~forceRebuild(providerCfg)
                      /\ ~isAliased
                      /\ providerConfigEqual(oldMap[key].entry, providerCfg)
                      /\ key \in DOMAIN exMap
             built == BuildProvider(providerCfg)
             next ==
                 IF key = "" THEN acc
                 ELSE IF reuse
                 THEN [acc EXCEPT !.result = Append(@, Reuse(ex, exMap, key)),
                                  !.finalIDs = @ \cup {key}]
                 ELSE IF built.err THEN [acc EXCEPT !.err = TRUE]
                 ELSE IF hadOld /\ key \in DOMAIN exMap
                 THEN [acc EXCEPT !.updated = appendChange(@, key),
                                  !.result = Append(@, built.provider),
                                  !.finalIDs = @ \cup {key}]
                 ELSE [acc EXCEPT !.added = appendChange(@, key),
                                  !.result = Append(@, built.provider),
                                  !.finalIDs = @ \cup {key}]
         IN ReconcileLoop(newEntries, n + 1, oldMap, sameObject, ex, next)

\* the inline fallback of ReconcileProviders, taken when the loop left no provider
InlineFallback(newCfg, oldMap, ex, acc) ==
    LET inline == MakeInlineAPIKeyProvider(newCfg.APIKeys)
        exMap == existingMap(ex)
    IN IF Len(acc.result) # 0 \/ inline = <<>> \/ providerIdentifier(inline[1]) = "" THEN acc
       ELSE LET key == providerIdentifier(inline[1])
                built == BuildProvider(inline[1])
            IN IF /\ key \in DOMAIN oldMap
                  /\ providerConfigEqual(oldMap[key].entry, inline[1])
                  /\ key \in DOMAIN exMap
               THEN [acc EXCEPT !.result = Append(@, Reuse(ex, exMap, key)),
                                !.finalIDs = @ \cup {key}]
               ELSE IF built.err THEN [acc EXCEPT !.err = TRUE]
               ELSE IF key \in DOMAIN exMap \/ key \in DOMAIN oldMap
               THEN [acc EXCEPT !.updated = appendChange(@, key),
                                !.result = Append(@, built.provider),
                                !.finalIDs = @ \cup {key}]
               ELSE [acc EXCEPT !.added = appendChange(@, key),
                                !.result = Append(@, built.provider),
                                !.finalIDs = @ \cup {key}]

RECURSIVE SetToSeq(_)
SetToSeq(S) == IF S = {} THEN <<>> ELSE LET x == CHOOSE y \in S : TRUE IN <<x>> \o SetToSeq(S \ {x})

ReconcileProvidersPartialOnError(old, newCfg, sameObject, ex) ==
    LET oldMap == accessProviderMap(old)
        start == [result |-> <<>>, added |-> <<>>, updated |-> <<>>, finalIDs |-> {}, err |-> FALSE]
        looped == ReconcileLoop(collectProviderEntries(newCfg), 1, oldMap, sameObject, ex, start)
        acc == IF looped.err THEN looped ELSE InlineFallback(newCfg, oldMap, ex, looped)
        removedSet == {id \in DOMAIN existingMap(ex) : id \notin acc.finalIDs /\ ~isInlineProvider(id)}
    IN IF acc.err THEN [result |-> acc.result, added |-> acc.added, updated |-> acc.updated,
                        removed |-> <<>>, err |-> TRUE, nil |-> FALSE]
       ELSE [result |-> acc.result,
             added |-> SortStrings(acc.added),
             updated |-> SortStrings(acc.updated),
             removed |-> SortStrings(SetToSeq(removedSet)),
             err |-> FALSE, nil |-> FALSE]
\* ReconcileProviders(oldCfg, newCfg, existing); sameObject: newCfg is oldCfg itself
ReconcileProviders(old, newCfg, sameObject, ex) ==
    LET oldMap == accessProviderMap(old)
        start == [result |-> <<>>, added |-> <<>>, updated |-> <<>>, finalIDs |-> {}, err |-> FALSE]
        looped == ReconcileLoop(collectProviderEntries(newCfg), 1, oldMap, sameObject, ex, start)
        acc == IF looped.err THEN looped ELSE InlineFallback(newCfg, oldMap, ex, looped)
        removedSet == {id \in DOMAIN existingMap(ex) : id \notin acc.finalIDs /\ ~isInlineProvider(id)}
    IN IF acc.err THEN [NilReconciled EXCEPT !.err = TRUE]
       ELSE [result |-> acc.result,
             added |-> SortStrings(acc.added),
             updated |-> SortStrings(acc.updated),
             removed |-> SortStrings(SetToSeq(removedSet)),
             err |-> FALSE, nil |-> FALSE]

(***************************************************************************)
(* The configurations a reload may bring.                                  *)
(***************************************************************************)
MaxProviders == 2

Entries ==
    << Entry("a", AccessProviderTypeConfigAPIKey, <<K1>>, ""),
       Entry("a", AccessProviderTypeConfigAPIKey, <<K2>>, ""),
       Entry("b", "ldap", <<>>, "c1"),
       Entry("b", "ldap", <<>>, "c2"),
       Entry("c", "ldap", <<>>, "c1"),
       Entry("d", "unregistered", <<>>, "") >>

\* the provider lists: the entries at the positions of I, in order
RECURSIVE Pick(_, _)
Pick(I, i) ==
    IF i > Len(Entries) THEN <<>>
    ELSE (IF i \in I THEN <<Entries[i]>> ELSE <<>>) \o Pick(I, i + 1)

ProviderLists == {Pick(I, 1) : I \in {J \in SUBSET DOMAIN Entries : Cardinality(J) <= MaxProviders}}

Config(ps, ks) == [Providers |-> ps, APIKeys |-> ks, nil |-> FALSE]

Configs ==
    {Config(ps, <<>>) : ps \in ProviderLists}
    \cup {Config(<<>>, ks) : ks \in {<<K1>>, <<K2>>}}
    \cup {Config(<<Entries[3]>>, <<K1>>)}

\* no configuration: the oldCfg of the first ApplyAccessProviders
NilConfig == [Providers |-> <<>>, APIKeys |-> <<>>, nil |-> TRUE]

NotApplied == [changed |-> FALSE, err |-> FALSE]

\* a server before its first configuration is applied: an empty manager
InitAccess ==
    /\ cfg = NilConfig
    /\ oldCfg = NilConfig
    /\ aliased = FALSE
    /\ manager = <<>>
    /\ existing = <<>>
    /\ reconciled = NilReconciled
    /\ applied = NotApplied

\* manager.SetProviders
SetProviders(result) == [i \in DOMAIN result |-> [result[i] EXCEPT !.from = 0]]

\* ApplyAccessProviders(manager, cfg, newCfg) on a reload; sameObject: the
\* reload hands over the configuration object the server already holds.
\* After a failed reconciliation the server keeps either configuration.
Reload(newCfg, sameObject, keepOld) ==
    /\ sameObject => newCfg = cfg
    /\ \E r \in {ReconcileProviders(cfg, newCfg, sameObject, manager)} :
          /\ reconciled' = r
          /\ IF r.err
             THEN /\ manager' = manager
                  /\ applied' = [changed |-> FALSE, err |-> TRUE]
                  /\ cfg' = IF keepOld THEN cfg ELSE newCfg
             ELSE /\ manager' = SetProviders(r.result)
                  /\ applied' = [changed |-> Len(r.added) + Len(r.updated) + Len(r.removed) > 0,
                                  err |-> FALSE]
                  /\ keepOld = FALSE
                  /\ cfg' = newCfg
    /\ oldCfg' = cfg
    /\ aliased' = sameObject
    /\ existing' = manager

AccessNext == \E newCfg \in Configs, sameObject \in BOOLEAN, keepOld \in BOOLEAN :
                  Reload(newCfg, sameObject, keepOld)

(***************************************************************************)
(* Thinking: budgets and effort levels.                                    *)
(***************************************************************************)
\* the level table of a model, lowest first; <<>> for a model without levels
GetModelThinkingLevels(m) ==
    CASE m = "gpt-5" -> <<"minimal", "low", "medium", "high">>
      [] m = "gpt-5.2" -> <<"minimal", "low", "medium", "high", "xhigh">>
      [] OTHER -> <<>>

\* util.ModelUsesThinkingLevels
ModelUsesThinkingLevels(m) == GetModelThinkingLevels(m) # <<>>

\* util.ModelSupportsThinking
ModelSupportsThinking(m) == m \in {"gpt-5", "gpt-5.2", "gemini-2.5-pro"}

Levels(m) == {GetModelThinkingLevels(m)[i] : i \in DOMAIN GetModelThinkingLevels(m)}

Highest(m) == GetModelThinkingLevels(m)[Len(GetModelThinkingLevels(m))]

NoEffort == [value |-> "", ok |-> FALSE]
NoBudget == [value |-> 0, ok |-> FALSE]

ThinkingBudgetToEffortOffByOne(m, b) ==
    CASE b = -1 -> [value |-> "auto", ok |-> TRUE]
      [] b < -1 -> NoEffort
      [] b = 0 -> [value |-> IF ModelUsesThinkingLevels(m) THEN GetModelThinkingLevels(m)[1]
                             ELSE "none", ok |-> TRUE]
      [] b > 0 /\ b < 1024 -> [value |-> "low", ok |-> TRUE]
      [] b >= 1024 /\ b < 8192 -> [value |-> "medium", ok |-> TRUE]
      [] b >= 8192 /\ b < 24576 -> [value |-> "high", ok |-> TRUE]
      [] OTHER -> [value |-> IF ModelUsesThinkingLevels(m) THEN Highest(m) ELSE "xhigh",
                   ok |-> TRUE]

ThinkingBudgetToEffortClampHigh(m, b) ==
    CASE b = -1 -> [value |-> "auto", ok |-> TRUE]
      [] b < -1 -> NoEffort
      [] b = 0 -> [value |-> IF ModelUsesThinkingLevels(m) THEN GetModelThinkingLevels(m)[1]
                             ELSE "none", ok |-> TRUE]
      [] b > 0 /\ b <= 1024 -> [value |-> "low", ok |-> TRUE]
      [] b > 1024 /\ b <= 8192 -> [value |-> "medium", ok |-> TRUE]
      [] OTHER -> [value |-> "high", ok |-> TRUE]

\* util.ThinkingBudgetToEffort
ThinkingBudgetToEffort(m, b) ==
    CASE b = -1 -> [value |-> "auto", ok |-> TRUE]
      [] b < -1 -> NoEffort
      [] b = 0 -> [value |-> IF ModelUsesThinkingLevels(m) THEN GetModelThinkingLevels(m)[1]
                             ELSE "none", ok |-> TRUE]
      [] b > 0 /\ b <= 1024 -> [value |-> "low", ok |-> TRUE]
      [] b > 1024 /\ b <= 8192 -> [value |-> "medium", ok |-> TRUE]
      [] b > 8192 /\ b <= 24576 -> [value |-> "high", ok |-> TRUE]
      [] OTHER -> [value |-> IF ModelUsesThinkingLevels(m) THEN Highest(m) ELSE "xhigh",
                   ok |-> TRUE]

ThinkingEffortToBudgetCaseSensitive(m, e) ==
    CASE e = "none" -> [value |-> 0, ok |-> TRUE]
      [] e = "auto" -> [value |-> -1, ok |-> TRUE]
      [] e = "minimal" -> [value |-> 512, ok |-> TRUE]
      [] e = "low" -> [value |-> 1024, ok |-> TRUE]
      [] e = "medium" -> [value |-> 8192, ok |-> TRUE]
      [] e = "high" -> [value |-> 24576, ok |-> TRUE]
      [] e = "xhigh" -> [value |-> 32768, ok |-> TRUE]
      [] OTHER -> NoBudget

\* util.ThinkingEffortToBudget
ThinkingEffortToBudget(m, e) ==
    LET lvl == Lower(e)
    IN CASE lvl = "none" -> [value |-> 0, ok |-> TRUE]
         [] lvl = "auto" -> [value |-> -1, ok |-> TRUE]
         [] lvl = "minimal" -> [value |-> 512, ok |-> TRUE]
         [] lvl = "low" -> [value |-> 1024, ok |-> TRUE]
         [] lvl = "medium" -> [value |-> 8192, ok |-> TRUE]
         [] lvl = "high" -> [value |-> 24576, ok |-> TRUE]
         [] lvl = "xhigh" -> [value |-> 32768, ok |-> TRUE]
         [] OTHER -> NoBudget

ThinkingModels == {"gpt-5", "gpt-5.2", "gemini-2.5-pro", "qwen3-code-plus", "openai-compat"}

\* the budgets of the conversions: the samples of the tests and both sides of
\* every threshold
Budgets ==
    {-5, -2, -1, 0, 1, 511, 512, 513, 1023, 1024, 1025, 8191, 8192, 8193,
     24575, 24576, 24577, 32767, 32768, 32769, 64000}

EffortNames ==
    {"", "none", "auto", "minimal", "low", "medium", "high", "xhigh", "invalid", "ultra",
     "LOW", "MEDIUM", "High", "Minimal", "XHIGH", "AUTO", "None", "Ultra"}

\* a conversion not made yet, and the result of one that was
NotConverted(r) == [done |-> FALSE, value |-> r.value, ok |-> FALSE]
Converted(r) == [done |-> TRUE, value |-> r.value, ok |-> r.ok]

InitThinking ==
    /\ thModel \in ThinkingModels
    /\ thBudget \in Budgets
    /\ thEffort \in EffortNames
    /\ toEffort = NotConverted(NoEffort)
    /\ toBudget = NotConverted(NoBudget)
    /\ roundTrip = NotConverted(NoEffort)

\* a call of ThinkingBudgetToEffort
BudgetToEffort ==
    /\ toEffort = NotConverted(NoEffort)
    /\ toEffort' = Converted(ThinkingBudgetToEffort(thModel, thBudget))
    /\ UNCHANGED <<thModel, thBudget, thEffort, toBudget, roundTrip>>

\* a call of ThinkingEffortToBudget
EffortToBudget ==
    /\ toBudget = NotConverted(NoBudget)
    /\ toBudget' = Converted(ThinkingEffortToBudget(thModel, thEffort))
    /\ UNCHANGED <<thModel, thBudget, thEffort, toEffort, roundTrip>>

\* the budget of the effort converted back to a level
BackToEffort ==
    /\ toBudget.done /\ toBudget.ok
    /\ roundTrip = NotConverted(NoEffort)
    /\ roundTrip' = Converted(ThinkingBudgetToEffort(thModel, toBudget.value))
    /\ UNCHANGED <<thModel, thBudget, thEffort, toEffort, toBudget>>

(***************************************************************************)
(* Thinking: a request prepared for a target protocol.                     *)
(***************************************************************************)
thinkingTestFromProtocols == {"openai", "claude", "gemini", "openai-response"}
thinkingTestToProtocols == {"gemini", "claude", "openai", "codex"}
thinkingNumericSamples == {-1, 0, 1023, 1025, 8193, 64000}
thinkingLevelSamples == {"auto", "none", "minimal", "low", "medium", "high", "xhigh", "invalid"}

\* isOpenAICompatModel
isOpenAICompatModel(m) == m = "openai-compat"

\* the thinking parameter of a request: none, an effort name or a budget
NoThinking == [kind |-> "none", effort |-> "", budget |-> 0]
EffortParam(e) == [kind |-> "effort", effort |-> e, budget |-> 0]
BudgetParam(b) == [kind |-> "budget", effort |-> "", budget |-> b]

\* what a prepared body carries in its thinking field, and the error
Absent == [present |-> FALSE, value |-> NoThinking, err |-> FALSE]
Invalid == [present |-> FALSE, value |-> NoThinking, err |-> TRUE]
Emit(v) == [present |-> TRUE, value |-> v, err |-> FALSE]
EmitInvalid(v) == [present |-> TRUE, value |-> v, err |-> TRUE]

\* the names a thinking suffix is parsed as an effort for
KnownLevels == {"none", "auto", "minimal", "low", "medium", "high", "xhigh"}

\* util.NormalizeThinkingModel: the metadata of a suffix; an integer is a
\* budget, a known name an effort, anything else is kept for logging only
NormalizeThinkingModel(suffix) ==
    CASE suffix.kind = "budget" -> suffix
      [] suffix.kind = "effort" /\ Lower(TrimStr(suffix.effort)) \in KnownLevels ->
             EffortParam(Lower(TrimStr(suffix.effort)))
      [] OTHER -> NoThinking

\* util.ThinkingFromMetadata
ThinkingFromMetadata(md) ==
    [hasBudget |-> md.kind = "budget", budget |-> md.budget, matched |-> md.kind # "none"]

\* util.ReasoningEffortFromMetadata
ReasoningEffortFromMetadata(md) ==
    [value |-> IF md.kind = "effort" THEN md.effort ELSE "", ok |-> md.kind # "none"]

\* util.NormalizeReasoningEffortLevel
NormalizeReasoningEffortLevel(m, e) ==
    IF Lower(TrimStr(e)) \in Levels(m)
    THEN [value |-> Lower(TrimStr(e)), ok |-> TRUE]
    ELSE NoEffort

\* util.NormalizeThinkingBudget: -1 (dynamic) and 0 (disabled) are kept, any
\* other budget is clamped to the range of the model
NormalizeThinkingBudget(m, b) ==
    IF b \in {-1, 0} \/ m # "gemini-2.5-pro" THEN b
    ELSE IF b < 128 THEN 128
    ELSE IF b > 32768 THEN 32768
    ELSE b

\* util.ResolveThinkingConfigFromMetadata; a suffix never sets include
ResolveThinkingConfigFromMetadata(m, md) ==
    IF md.kind = "none" \/ ModelUsesThinkingLevels(m)
    THEN [hasBudget |-> FALSE, budget |-> 0, ok |-> FALSE]
    ELSE IF md.kind = "budget"
    THEN [hasBudget |-> TRUE, budget |-> md.budget, ok |-> TRUE]
    ELSE [hasBudget |-> ThinkingEffortToBudget(m, md.effort).ok,
          budget |-> ThinkingEffortToBudget(m, md.effort).value, ok |-> TRUE]

\* util.ResolveClaudeThinkingConfig
ResolveClaudeThinkingConfig(m, md) ==
    LET r == ResolveThinkingConfigFromMetadata(m, md)
    IN IF ~ModelSupportsThinking(m) \/ ~r.ok \/ ~r.hasBudget
       THEN [hasBudget |-> FALSE, budget |-> 0, ok |-> FALSE]
       ELSE IF NormalizeThinkingBudget(m, r.budget) <= 0
       THEN [hasBudget |-> FALSE, budget |-> 0, ok |-> TRUE]
       ELSE [hasBudget |-> TRUE, budget |-> NormalizeThinkingBudget(m, r.budget), ok |-> TRUE]

\* the expected body of buildBodyForProtocol, target gemini
SuffixGemini(m, md) ==
    LET r == ResolveThinkingConfigFromMetadata(m, md)
    IN IF ~r.ok \/ ~ModelSupportsThinking(m) THEN Absent
       ELSE IF ~r.hasBudget THEN Absent
       ELSE Emit(BudgetParam(NormalizeThinkingBudget(m, r.budget)))

\* target claude
SuffixClaude(m, md) ==
    LET r == ResolveClaudeThinkingConfig(m, md)
    IN IF ~ModelSupportsThinking(m) THEN Absent
       ELSE IF ~r.ok \/ ~r.hasBudget THEN Absent
       ELSE Emit(BudgetParam(r.budget))

\* the effort of the metadata, or else the effort its budget maps to
EffortOrMappedBudget(m, md) ==
    LET e == ReasoningEffortFromMetadata(md)
        b == ThinkingFromMetadata(md)
    IN IF (~e.ok \/ TrimStr(e.value) = "") /\ b.matched /\ b.hasBudget
          /\ ThinkingBudgetToEffort(m, b.budget).ok
       THEN [value |-> ThinkingBudgetToEffort(m, b.budget).value, ok |-> TRUE]
       ELSE e

\* target openai
SuffixOpenAI(m, md) ==
    LET e == ReasoningEffortFromMetadata(md)
        b == ThinkingFromMetadata(md)
        f == EffortOrMappedBudget(m, md)
    IN IF ~ModelSupportsThinking(m) /\ ~isOpenAICompatModel(m) THEN Absent
       ELSE IF isOpenAICompatModel(m)
       THEN IF e.ok /\ TrimStr(e.value) # "" THEN Emit(EffortParam(Lower(TrimStr(e.value))))
            ELSE IF b.matched /\ b.hasBudget /\ ThinkingBudgetToEffort(m, b.budget).ok
                    /\ ThinkingBudgetToEffort(m, b.budget).value # ""
            THEN Emit(EffortParam(ThinkingBudgetToEffort(m, b.budget).value))
            ELSE Absent
       ELSE IF ~ModelUsesThinkingLevels(m) THEN Absent
       ELSE IF ~f.ok \/ TrimStr(f.value) = "" THEN Absent
       ELSE IF NormalizeReasoningEffortLevel(m, Lower(TrimStr(f.value))).ok
       THEN Emit(EffortParam(NormalizeReasoningEffortLevel(m, Lower(TrimStr(f.value))).value))
       ELSE Invalid

SuffixCodexNoSupportCheck(from, m, md) ==
    LET e == ReasoningEffortFromMetadata(md)
        b == ThinkingFromMetadata(md)
        mapped == ThinkingBudgetToEffort(m, b.budget)
    IN IF e.ok /\ TrimStr(e.value) # ""
       THEN IF NormalizeReasoningEffortLevel(m, Lower(TrimStr(e.value))).ok
            THEN Emit(EffortParam(NormalizeReasoningEffortLevel(m, Lower(TrimStr(e.value))).value))
            ELSE Invalid
       ELSE IF b.matched /\ b.hasBudget /\ mapped.ok /\ mapped.value # ""
       THEN IF NormalizeReasoningEffortLevel(m, Lower(TrimStr(mapped.value))).ok
            THEN Emit(EffortParam(
                     NormalizeReasoningEffortLevel(m, Lower(TrimStr(mapped.value))).value))
            ELSE Invalid
       ELSE IF from # "openai-response" THEN Emit(EffortParam("medium"))
       ELSE Absent

\* target codex
SuffixCodex(from, m, md) ==
    LET e == ReasoningEffortFromMetadata(md)
        b == ThinkingFromMetadata(md)
        mapped == ThinkingBudgetToEffort(m, b.budget)
    IN IF ~ModelSupportsThinking(m) \/ ~ModelUsesThinkingLevels(m) THEN Absent
       ELSE IF e.ok /\ TrimStr(e.value) # ""
       THEN IF NormalizeReasoningEffortLevel(m, Lower(TrimStr(e.value))).ok
            THEN Emit(EffortParam(NormalizeReasoningEffortLevel(m, Lower(TrimStr(e.value))).value))
            ELSE Invalid
       ELSE IF b.matched /\ b.hasBudget /\ mapped.ok /\ mapped.value # ""
       THEN IF NormalizeReasoningEffortLevel(m, Lower(TrimStr(mapped.value))).ok
            THEN Emit(EffortParam(
                     NormalizeReasoningEffortLevel(m, Lower(TrimStr(mapped.value))).value))
            ELSE Invalid
       ELSE IF from # "openai-response" THEN Emit(EffortParam("medium"))
       ELSE Absent

\* the body and the error of buildBodyForProtocol, as the test expects them
SuffixConversion(from, to, m, suffix) ==
    LET md == NormalizeThinkingModel(suffix)
    IN CASE to = "gemini" -> SuffixGemini(m, md)
         [] to = "claude" -> SuffixClaude(m, md)
         [] to = "openai" -> SuffixOpenAI(m, md)
         [] to = "codex" -> SuffixCodex(from, m, md)
         [] OTHER -> Absent

\* raw thinking parameter, target gemini
RawGemini(m, param) ==
    IF ~ModelSupportsThinking(m) \/ ModelUsesThinkingLevels(m) THEN Absent
    ELSE IF param.kind = "budget"
    THEN Emit(BudgetParam(NormalizeThinkingBudget(m, param.budget)))
    ELSE IF param.kind = "effort" /\ param.effort # ""
    THEN IF Lower(param.effort) = "none" THEN Absent
         ELSE IF ThinkingEffortToBudget(m, param.effort).ok
         THEN Emit(BudgetParam(ThinkingEffortToBudget(m, param.effort).value))
         ELSE Absent
    ELSE Absent

\* target claude
RawClaude(m, param) ==
    IF ~ModelSupportsThinking(m) \/ ModelUsesThinkingLevels(m) THEN Absent
    ELSE IF param.kind = "budget" /\ param.budget > 0
    THEN Emit(BudgetParam(NormalizeThinkingBudget(m, param.budget)))
    ELSE IF param.kind = "effort" /\ param.effort # ""
    THEN IF Lower(param.effort) \in {"none", "auto"} THEN Absent
         ELSE IF ThinkingEffortToBudget(m, param.effort).ok
         THEN Emit(BudgetParam(ThinkingEffortToBudget(m, param.effort).value))
         ELSE Absent
    ELSE Absent

\* a budget mapped to an effort and validated against the level table
RawMappedBudget(m, param) ==
    LET mapped == ThinkingBudgetToEffort(m, param.budget)
    IN IF NormalizeReasoningEffortLevel(m, mapped.value).ok
       THEN Emit(EffortParam(mapped.value))
       ELSE EmitInvalid(EffortParam(mapped.value))

HasMappedBudget(m, param) ==
    /\ param.kind = "budget"
    /\ ThinkingBudgetToEffort(m, param.budget).ok
    /\ ThinkingBudgetToEffort(m, param.budget).value # ""

RawOpenAIDropsUnlistedBudget(m, param) ==
    IF isOpenAICompatModel(m)
    THEN IF param.kind = "effort" /\ TrimStr(param.effort) # ""
         THEN Emit(EffortParam(Lower(TrimStr(param.effort))))
         ELSE IF HasMappedBudget(m, param)
         THEN Emit(EffortParam(ThinkingBudgetToEffort(m, param.budget).value))
         ELSE Absent
    ELSE IF ~ModelSupportsThinking(m) \/ ~ModelUsesThinkingLevels(m) THEN Absent
    ELSE IF param.kind = "effort" /\ param.effort # ""
    THEN IF NormalizeReasoningEffortLevel(m, param.effort).ok
         THEN Emit(EffortParam(NormalizeReasoningEffortLevel(m, param.effort).value))
         ELSE Invalid
    ELSE IF HasMappedBudget(m, param)
            /\ NormalizeReasoningEffortLevel(m, ThinkingBudgetToEffort(m, param.budget).value).ok
    THEN RawMappedBudget(m, param)
    ELSE Absent

\* target openai
RawOpenAI(m, param) ==
    IF isOpenAICompatModel(m)
    THEN IF param.kind = "effort" /\ TrimStr(param.effort) # ""
         THEN Emit(EffortParam(Lower(TrimStr(param.effort))))
         ELSE IF HasMappedBudget(m, param)
         THEN Emit(EffortParam(ThinkingBudgetToEffort(m, param.budget).value))
         ELSE Absent
    ELSE IF ~ModelSupportsThinking(m) \/ ~ModelUsesThinkingLevels(m) THEN Absent
    ELSE IF param.kind = "effort" /\ param.effort # ""
    THEN IF NormalizeReasoningEffortLevel(m, param.effort).ok
         THEN Emit(EffortParam(NormalizeReasoningEffortLevel(m, param.effort).value))
         ELSE Invalid
    ELSE IF HasMappedBudget(m, param) THEN RawMappedBudget(m, param)
    ELSE Absent

RawCodexNotLowercased(from, m, param) ==
    IF ~ModelSupportsThinking(m) \/ ~ModelUsesThinkingLevels(m) THEN Absent
    ELSE IF param.kind = "effort" /\ param.effort # ""
    THEN IF NormalizeReasoningEffortLevel(m, param.effort).ok
         THEN Emit(EffortParam(param.effort))
         ELSE Invalid
    ELSE IF HasMappedBudget(m, param) THEN RawMappedBudget(m, param)
    ELSE IF from # "openai-response" THEN Emit(EffortParam("medium"))
    ELSE Absent

\* target codex
RawCodex(from, m, param) ==
    IF ~ModelSupportsThinking(m) \/ ~ModelUsesThinkingLevels(m) THEN Absent
    ELSE IF param.kind = "effort" /\ param.effort # ""
    THEN IF NormalizeReasoningEffortLevel(m, param.effort).ok
         THEN Emit(EffortParam(NormalizeReasoningEffortLevel(m, param.effort).value))
         ELSE Invalid
    ELSE IF HasMappedBudget(m, param) THEN RawMappedBudget(m, param)
    ELSE IF from # "openai-response" THEN Emit(EffortParam("medium"))
    ELSE Absent

\* the body and the error of buildBodyForProtocolWithRawThinking, as the test
\* expects them
RawConversion(from, to, m, param) ==
    IF param.kind = "none"
    THEN IF to = "codex" /\ from # "openai-response" /\ ModelSupportsThinking(m)
            /\ ModelUsesThinkingLevels(m)
         THEN Emit(EffortParam("medium"))
         ELSE Absent
    ELSE CASE to = "gemini" -> RawGemini(m, param)
           [] to = "claude" -> RawClaude(m, param)
           [] to = "openai" -> RawOpenAI(m, param)
           [] to = "codex" -> RawCodex(from, m, param)
           [] OTHER -> Absent

\* the effort spellings of the requests: the samples of the tests and two
\* that are not lower case
EffortSpellings == thinkingLevelSamples \cup {"HIGH", "Low"}

\* the scenarios of a source protocol: levels for the OpenAI-style ones,
\* budgets for claude and gemini
Scenarios(from) ==
    {NoThinking} \cup
    (IF from \in {"openai", "openai-response"}
     THEN {EffortParam(e) : e \in EffortSpellings}
     ELSE {BudgetParam(b) : b \in thinkingNumericSamples})

NotBuilt == [built |-> FALSE, present |-> FALSE, value |-> NoThinking, err |-> FALSE]
Built(r) == [built |-> TRUE, present |-> r.present, value |-> r.value, err |-> r.err]

InitPipeline ==
    /\ fromProtocol \in thinkingTestFromProtocols
    /\ toProtocol \in thinkingTestToProtocols \ {fromProtocol}
    /\ targetModel \in ThinkingModels
    /\ thinkingParam \in Scenarios(fromProtocol)
    /\ viaSuffix = FALSE
    /\ payload = NotBuilt

\* buildBodyForProtocol: the thinking parameter is the suffix of the model
buildBodyForProtocol ==
    /\ payload = NotBuilt
    /\ payload' = Built(SuffixConversion(fromProtocol, toProtocol, targetModel, thinkingParam))
    /\ viaSuffix' = TRUE
    /\ UNCHANGED <<fromProtocol, toProtocol, targetModel, thinkingParam>>

\* buildBodyForProtocolWithRawThinking: the thinking parameter is in the body
buildBodyForProtocolWithRawThinking ==
    /\ payload = NotBuilt
    /\ payload' = Built(RawConversion(fromProtocol, toProtocol, targetModel, thinkingParam))
    /\ viaSuffix' = FALSE
    /\ UNCHANGED <<fromProtocol, toProtocol, targetModel, thinkingParam>>

(***************************************************************************)
(* Gemini 3 thinking levels.  Gemini 3 models take a named thinkingLevel   *)
(* instead of a numeric thinkingBudget.  A request body is the record of   *)
(* its generationConfig.thinkingConfig: the thinkingBudget, thinkingLevel  *)
(* and includeThoughts fields, each present or not.  The Gemini CLI body   *)
(* holds the same fields under "request.".                                 *)
(***************************************************************************)
\* the model name, lower-cased and with "_" read as "-"
Gemini3Name(m) ==
    CASE m \in {"gemini-3-pro-preview", "gemini_3_pro_preview", "GEMINI-3-PRO-PREVIEW"}
           -> "gemini-3-pro-preview"
      [] m \in {"gemini-3-flash-preview", "gemini_3_flash_preview", "GEMINI-3-FLASH-PREVIEW"}
           -> "gemini-3-flash-preview"
      [] OTHER -> m

\* util.IsGemini3ProModel, util.IsGemini3FlashModel, util.IsGemini3Model
IsGemini3ProModel(m) == Gemini3Name(m) \in {"gemini-3-pro-preview", "gemini-3-pro"}
IsGemini3FlashModel(m) == Gemini3Name(m) \in {"gemini-3-flash-preview", "gemini-3-flash"}
IsGemini3Model(m) == IsGemini3ProModel(m) \/ IsGemini3FlashModel(m)

\* the levels each Gemini 3 family accepts
Gemini3ProThinkingLevels == {"low", "high"}
Gemini3FlashThinkingLevels == {"minimal", "low", "medium", "high"}
Gemini3Levels(m) ==
    IF IsGemini3ProModel(m) THEN Gemini3ProThinkingLevels
    ELSE IF IsGemini3FlashModel(m) THEN Gemini3FlashThinkingLevels
    ELSE {}

NoLevel == [value |-> "", ok |-> FALSE]

ValidateGemini3ThinkingLevelCaseSensitive(m, l) ==
    IF TrimStr(l) \in Gemini3Levels(m)
    THEN [value |-> TrimStr(l), ok |-> TRUE]
    ELSE NoLevel
\* util.ValidateGemini3ThinkingLevel
ValidateGemini3ThinkingLevel(m, l) ==
    IF Lower(TrimStr(l)) \in Gemini3Levels(m)
    THEN [value |-> Lower(TrimStr(l)), ok |-> TRUE]
    ELSE NoLevel

\* util.ThinkingBudgetToGemini3Level: -1 (dynamic) is the highest level, 0 the
\* lowest; Pro has the two levels low and high, Flash four
ThinkingBudgetToGemini3Level(m, b) ==
    IF ~IsGemini3Model(m) \/ b < -1 THEN NoLevel
    ELSE IF b = -1 THEN [value |-> "high", ok |-> TRUE]
    ELSE IF IsGemini3ProModel(m)
    THEN [value |-> IF b <= 8192 THEN "low" ELSE "high", ok |-> TRUE]
    ELSE [value |-> IF b <= 512 THEN "minimal"
                    ELSE IF b <= 1024 THEN "low"
                    ELSE IF b <= 8192 THEN "medium"
                    ELSE "high", ok |-> TRUE]

\* a body: thinkingBudget, thinkingLevel, includeThoughts
Body(hb, b, hl, l, hi, i) ==
    [hasBudget |-> hb, budget |-> b, hasLevel |-> hl, level |-> l,
     hasInclude |-> hi, include |-> i]

NormalizeGeminiThinkingBudgetKeepsBudget(m, in) ==
    IF ~in.hasBudget THEN in
    ELSE IF IsGemini3Model(m) /\ ThinkingBudgetToGemini3Level(m, in.budget).ok
    THEN [in EXCEPT !.hasLevel = TRUE,
                    !.level = ThinkingBudgetToGemini3Level(m, in.budget).value]
    ELSE [in EXCEPT !.budget = NormalizeThinkingBudget(m, in.budget)]
\* util.NormalizeGeminiThinkingBudget
NormalizeGeminiThinkingBudget(m, in) ==
    IF ~in.hasBudget THEN in
    ELSE IF IsGemini3Model(m)
    THEN IF ThinkingBudgetToGemini3Level(m, in.budget).ok
         THEN [in EXCEPT !.hasBudget = FALSE, !.budget = 0, !.hasLevel = TRUE,
                         !.level = ThinkingBudgetToGemini3Level(m, in.budget).value]
         ELSE [in EXCEPT !.hasBudget = FALSE, !.budget = 0]
    ELSE [in EXCEPT !.budget = NormalizeThinkingBudget(m, in.budget)]

\* the request metadata: nil, or {"reasoning_effort": level}
NilMetadata == [set |-> FALSE, reasoning_effort |-> ""]
EffortMetadata(l) == [set |-> TRUE, reasoning_effort |-> l]

\* util.ApplyGemini3ThinkingLevel
ApplyGemini3ThinkingLevel(in, l) ==
    [in EXCEPT !.hasBudget = FALSE, !.budget = 0, !.hasLevel = TRUE, !.level = l]

ApplyGemini3ThinkingLevelFromMetadataUnvalidated(m, md, in) ==
    IF ~md.set \/ ~IsGemini3Model(m) THEN in
    ELSE ApplyGemini3ThinkingLevel(in, Lower(TrimStr(md.reasoning_effort)))
\* util.ApplyGemini3ThinkingLevelFromMetadata and
\* util.ApplyGemini3ThinkingLevelFromMetadataCLI, which differ in the path
ApplyGemini3ThinkingLevelFromMetadata(m, md, in) ==
    IF ~md.set \/ ~IsGemini3Model(m) THEN in
    ELSE IF ValidateGemini3ThinkingLevel(m, md.reasoning_effort).ok
    THEN ApplyGemini3ThinkingLevel(in, ValidateGemini3ThinkingLevel(m, md.reasoning_effort).value)
    ELSE in

\* the models, levels and budgets of the tests
Gemini3TestModels ==
    {"gemini-3-pro-preview", "gemini-3-flash-preview", "gemini_3_pro_preview",
     "gemini-3-pro", "gemini-3-flash", "GEMINI-3-PRO-PREVIEW",
     "gemini-2.5-pro", "gemini-2.5-flash", "gpt-5", "claude-sonnet-4-5", ""}
Gemini3TestLevels ==
    {"minimal", "low", "medium", "high", "xhigh", "auto", "", "LOW", "High", "HIGH"}
Gemini3TestBudgets == {-1, 0, 500, 512, 513, 1000, 1024, 1025, 8000, 8192, 8193, 20000, 50000}

\* the bodies: no thinking field, a budget, or a level; includeThoughts or not
IncludeThoughts == {<<FALSE, FALSE>>, <<TRUE, TRUE>>, <<TRUE, FALSE>>}
Gemini3Bodies ==
    {Body(FALSE, 0, FALSE, "", t[1], t[2]) : t \in IncludeThoughts}
    \cup {Body(TRUE, b, FALSE, "", t[1], t[2]) : b \in Gemini3TestBudgets, t \in IncludeThoughts}
    \cup {Body(FALSE, 0, TRUE, l, TRUE, TRUE) : l \in {"low", "high"}}

NotCalled == [done |-> FALSE]
Validated(r) == [done |-> TRUE, value |-> r.value, ok |-> r.ok]
Returned(b) == [done |-> TRUE, body |-> b]

InitGemini3 ==
    /\ g3Model \in Gemini3TestModels
    /\ g3Level \in Gemini3TestLevels
    /\ g3Metadata \in {NilMetadata, EffortMetadata(g3Level)}
    /\ g3InputBody \in Gemini3Bodies
    /\ g3CLI \in BOOLEAN
    /\ g3Validated = NotCalled
    /\ g3Normalized = NotCalled
    /\ g3Applied = NotCalled

\* a call of ValidateGemini3ThinkingLevel(model, level)
ValidateLevel ==
    /\ ~g3Validated.done
    /\ g3Validated' = Validated(ValidateGemini3ThinkingLevel(g3Model, g3Level))
    /\ UNCHANGED <<g3Model, g3Level, g3Metadata, g3InputBody, g3CLI, g3Normalized, g3Applied>>

\* a call of NormalizeGeminiThinkingBudget(model, inputBody)
NormalizeBudget ==
    /\ ~g3Normalized.done
    /\ g3Normalized' = Returned(NormalizeGeminiThinkingBudget(g3Model, g3InputBody))
    /\ UNCHANGED <<g3Model, g3Level, g3Metadata, g3InputBody, g3CLI, g3Validated, g3Applied>>

\* a call of ApplyGemini3ThinkingLevelFromMetadata(model, metadata, inputBody),
\* or of its CLI variant for a Gemini CLI body
ApplyLevelFromMetadata ==
    /\ ~g3Applied.done
    /\ g3Applied' = Returned(ApplyGemini3ThinkingLevelFromMetadata(g3Model, g3Metadata, g3InputBody))
    /\ UNCHANGED <<g3Model, g3Level, g3Metadata, g3InputBody, g3CLI, g3Validated, g3Normalized>>

(***************************************************************************)
(* The donation site.  Sessions live in an in-memory store keyed by token; *)
(* a handler holds a pointer to its session, so the session objects are    *)
(* kept apart from the keys of the store.  Requests run concurrently: each *)
(* is at a position (pc) between the steps that read or write the stores.  *)
(* Time is counted in steps of twelve hours.                               *)
(***************************************************************************)
\* SessionTTL: 24 hours
SessionTTL == 2
\* NewDonationHandler: the default quota amount
DefaultQuotaAmount == 2000000

MaxTime == 4
MaxSessions == 2
MaxRequests == 2

Tokens == 1..MaxSessions
LinuxDoIDs == {0, 7}
Routes == {"POST /bind", "GET /donate", "POST /donate/confirm", "POST /logout"}
\* the session_id cookie of a request: -1 missing, 0 empty, or a token
Cookies == {-1, 0} \cup Tokens

NewSessionStoreWithTTLUnchecked(d) == d
\* NewSessionStore, NewSessionStoreWithTTL
NewSessionStore == SessionTTL
NewSessionStoreWithTTL(d) == IF d <= 0 THEN SessionTTL ELSE d

\* NewDonationHandler
NewDonationHandler(q) == IF q <= 0 THEN DefaultQuotaAmount ELSE q

\* how the module is set up: the session store and the configured quota
DonationConfigs ==
    {[custom |-> FALSE, ttl |-> 0, quota |-> 0]}
    \cup {[custom |-> TRUE, ttl |-> d, quota |-> 500] : d \in {-1, 0, 1}}

NilSession == [LinuxDoID |-> 0, NewAPIUserID |-> 0, CreatedAt |-> 0, ExpiresAt |-> 0]

\* Session.IsExpired: time.Now().After(s.ExpiresAt)
IsExpired(s) == now > s.ExpiresAt

GetIgnoringExpiry(sessionID) ==
    IF sessionID \notin sessions THEN [session |-> 0, store |-> sessions]
    ELSE [session |-> sessionID, store |-> sessions]
\* SessionStore.Get: the session found (0 for nil) and the keys left in the store
Get(sessionID) ==
    IF sessionID \notin sessions THEN [session |-> 0, store |-> sessions]
    ELSE IF IsExpired(sessionObjects[sessionID])
    THEN [session |-> 0, store |-> sessions \ {sessionID}]
    ELSE [session |-> sessionID, store |-> sessions]

\* SessionStore.Delete
Delete(sessionID) == sessions \ {sessionID}

\* strconv.Atoi of the linux_do_id New-API returns; the error is dropped
Atoi(str) ==
    CASE str = "7" -> 7
      [] str = "8" -> 8
      [] OTHER -> 0
LinuxDoIDStrings == {"", "abc", "7", "8"}

\* NewAPIService.GetUserByID: an error, or the user with its linux_do_id
GetUserByIDResults ==
    {[err |-> TRUE, LinuxDoID |-> ""]} \cup {[err |-> FALSE, LinuxDoID |-> str] : str \in LinuxDoIDStrings}

IdleRequest ==
    [pc |-> "idle", route |-> "", cookie |-> 0, ctx |-> 0, status |-> 0, cleared |-> FALSE,
     newAPIUser |-> [err |-> TRUE, LinuxDoID |-> ""], submitted |-> 0,
     addQuota |-> <<>>, logged |-> <<>>]

InitDonation ==
    /\ donationCfg \in DonationConfigs
    /\ ttl = IF donationCfg.custom THEN NewSessionStoreWithTTL(donationCfg.ttl) ELSE NewSessionStore
    /\ quotaAmount = NewDonationHandler(donationCfg.quota)
    /\ now = 0
    /\ issued = {}
    /\ sessions = {}
    /\ sessionObjects = [t \in Tokens |-> NilSession]
    /\ bindings = [u \in LinuxDoIDs |-> 0]
    /\ reqs = [r \in 1..MaxRequests |-> IdleRequest]

\* the clock
Tick ==
    /\ now < MaxTime
    /\ now' = now + 1
    /\ UNCHANGED <<donationCfg, ttl, quotaAmount, issued, sessions, sessionObjects, bindings, reqs>>

\* HandleCallback for a Linux Do user: SessionStore.Create, then the binding
\* of the user, if any, is copied into the session
HandleCallback(user) ==
    /\ Cardinality(issued) < MaxSessions
    /\ \E token \in {Cardinality(issued) + 1} :
          /\ issued' = issued \cup {token}
          /\ sessions' = sessions \cup {token}
          /\ sessionObjects' = [sessionObjects EXCEPT ![token] =
                 [LinuxDoID |-> user, NewAPIUserID |-> bindings[user],
                  CreatedAt |-> now, ExpiresAt |-> now + ttl]]
    /\ UNCHANGED <<donationCfg, ttl, quotaAmount, now, bindings, reqs>>

\* AuthMiddleware for a request to a guarded route
AuthMiddleware(r, route, cookie) ==
    /\ reqs[r].pc = "idle"
    /\ IF cookie \in {-1, 0}
       THEN /\ reqs' = [reqs EXCEPT ![r] = [@ EXCEPT !.pc = "done", !.route = route,
                            !.cookie = cookie, !.status = 401]]
            /\ UNCHANGED sessions
       ELSE IF Get(cookie).session = 0
       THEN /\ sessions' = Get(cookie).store
            /\ reqs' = [reqs EXCEPT ![r] = [@ EXCEPT !.pc = "done", !.route = route,
                            !.cookie = cookie, !.status = 401, !.cleared = TRUE]]
       ELSE /\ reqs' = [reqs EXCEPT ![r] = [@ EXCEPT !.pc = "handler", !.route = route,
                            !.cookie = cookie, !.ctx = Get(cookie).session]]
            /\ UNCHANGED sessions
    /\ UNCHANGED <<donationCfg, ttl, quotaAmount, now, issued, sessionObjects, bindings>>

Respond(r, status) == [reqs EXCEPT ![r] = [@ EXCEPT !.pc = "done", !.status = status]]

\* HandleLogout
HandleLogout(r) ==
    /\ reqs[r].pc = "handler" /\ reqs[r].route = "POST /logout"
    /\ sessions' = Delete(reqs[r].ctx)
    /\ reqs' = [reqs EXCEPT ![r] = [@ EXCEPT !.pc = "done", !.status = 200, !.cleared = TRUE]]
    /\ UNCHANGED <<donationCfg, ttl, quotaAmount, now, issued, sessionObjects, bindings>>

\* HandleDonatePage
HandleDonatePage(r) ==
    /\ reqs[r].pc = "handler" /\ reqs[r].route = "GET /donate"
    /\ reqs' = Respond(r, 200)
    /\ UNCHANGED <<donationCfg, ttl, quotaAmount, now, issued, sessions, sessionObjects, bindings>>

HandleDonateConfirmUnbound(r) ==
    /\ reqs[r].pc = "handler" /\ reqs[r].route = "POST /donate/confirm"
    /\ \E err \in BOOLEAN :
          reqs' = [reqs EXCEPT ![r] = [@ EXCEPT
              !.pc = "done",
              !.addQuota = Append(@, [userID |-> sessionObjects[reqs[r].ctx].NewAPIUserID,
                                      amount |-> quotaAmount, err |-> err]),
              !.logged = Append(@, IF err THEN "LogDonationError" ELSE "LogDonation"),
              !.status = IF err THEN 500 ELSE 200]]
    /\ UNCHANGED <<donationCfg, ttl, quotaAmount, now, issued, sessions, sessionObjects, bindings>>
\* HandleDonateConfirm; AddQuota succeeds or fails
HandleDonateConfirm(r) ==
    /\ reqs[r].pc = "handler" /\ reqs[r].route = "POST /donate/confirm"
    /\ IF sessionObjects[reqs[r].ctx].NewAPIUserID = 0
       THEN reqs' = Respond(r, 400)
       ELSE \E err \in BOOLEAN :
               reqs' = [reqs EXCEPT ![r] = [@ EXCEPT
                   !.pc = "done",
                   !.addQuota = Append(@, [userID |-> sessionObjects[reqs[r].ctx].NewAPIUserID,
                                           amount |-> quotaAmount, err |-> err]),
                   !.logged = Append(@, IF err THEN "LogDonationError" ELSE "LogDonation"),
                   !.status = IF err THEN 500 ELSE 200]]
    /\ UNCHANGED <<donationCfg, ttl, quotaAmount, now, issued, sessions, sessionObjects, bindings>>

\* HandleBind up to the first half of SessionStore.Update (the Load): the
\* checks, GetUserByID, BindingStore.Create (whose save may fail after the
\* binding is in the map) and the write of session.NewAPIUserID
HandleBind(r) ==
    /\ reqs[r].pc = "handler" /\ reqs[r].route = "POST /bind"
    /\ \E id \in {0, 3}, user \in GetUserByIDResults, saved \in BOOLEAN :
          LET s == sessionObjects[reqs[r].ctx]
              q == [reqs[r] EXCEPT !.submitted = id]
          IN IF s.NewAPIUserID # 0 \/ id = 0
             THEN /\ reqs' = [reqs EXCEPT ![r] = [q EXCEPT !.pc = "done", !.status = 400]]
                  /\ UNCHANGED <<bindings, sessionObjects>>
             ELSE IF user.err
             THEN /\ reqs' = [reqs EXCEPT ![r] = [q EXCEPT !.pc = "done", !.status = 404,
                                  !.logged = Append(@, "LogError")]]
                  /\ UNCHANGED <<bindings, sessionObjects>>
             ELSE IF Atoi(user.LinuxDoID) # s.LinuxDoID
             THEN /\ reqs' = [reqs EXCEPT ![r] = [q EXCEPT !.pc = "done", !.status = 403,
                                  !.newAPIUser = user]]
                  /\ UNCHANGED <<bindings, sessionObjects>>
             ELSE /\ bindings' = [bindings EXCEPT ![s.LinuxDoID] = id]
                  /\ IF ~saved
                     THEN /\ reqs' = [reqs EXCEPT ![r] = [q EXCEPT !.pc = "done", !.status = 500,
                                          !.newAPIUser = user]]
                          /\ UNCHANGED sessionObjects
                     ELSE /\ sessionObjects' = [sessionObjects EXCEPT ![reqs[r].ctx].NewAPIUserID = id]
                          /\ reqs' = [reqs EXCEPT ![r] = [q EXCEPT !.newAPIUser = user,
                                 !.pc = IF reqs[r].ctx \in sessions THEN "update" ELSE "log"]]
    /\ UNCHANGED <<donationCfg, ttl, quotaAmount, now, issued, sessions>>

\* the second half of SessionStore.Update (the Store), then LogBinding and
\* the answer
HandleBindUpdate(r) ==
    /\ reqs[r].pc \in {"update", "log"}
    /\ sessions' = IF reqs[r].pc = "update" THEN sessions \cup {reqs[r].ctx} ELSE sessions
    /\ reqs' = [reqs EXCEPT ![r] = [@ EXCEPT !.pc = "done", !.status = 200,
                                       !.logged = Append(@, "LogBinding")]]
    /\ UNCHANGED <<donationCfg, ttl, quotaAmount, now, issued, sessionObjects, bindings>>

(***************************************************************************)
(* Roles.  A RoleService holds the admin Linux Do IDs (and, in the         *)
(* username-aware variant, the lowercased admin usernames).  The callback  *)
(* stores DetermineRole's answer in the session; RoleMiddleware and        *)
(* CheckAdminAccess decide on the role of the session in the context.      *)
(***************************************************************************)
RoleUser == "user"
RoleAdmin == "admin"

NilRoleService == [nil |-> TRUE, adminIDs |-> {}, adminUsernames |-> {}]

\* NewRoleService(adminLinuxDoIDs, adminUsernames): usernames are stored lowercased
NewRoleService(adminLinuxDoIDs, usernames) ==
    [nil |-> FALSE, adminIDs |-> adminLinuxDoIDs,
     adminUsernames |-> {Lower(u) : u \in usernames}]

\* RoleService.DetermineRole(linuxDoID)
DetermineRole(s, linuxDoID) ==
    IF s.nil THEN RoleUser
    ELSE IF linuxDoID \in s.adminIDs THEN RoleAdmin
    ELSE RoleUser

DetermineRoleByUsernameCaseSensitive(s, linuxDoID, username) ==
    IF s.nil THEN RoleUser
    ELSE IF linuxDoID \in s.adminIDs THEN RoleAdmin
    ELSE IF username # "" /\ username \in s.adminUsernames THEN RoleAdmin
    ELSE RoleUser
\* RoleService.DetermineRole(linuxDoID, username) of the username-aware variant
DetermineRoleByUsername(s, linuxDoID, username) ==
    IF s.nil THEN RoleUser
    ELSE IF linuxDoID \in s.adminIDs THEN RoleAdmin
    ELSE IF username # "" /\ Lower(username) \in s.adminUsernames THEN RoleAdmin
    ELSE RoleUser

hasRequiredRoleExactMatch(userRole, requiredRole) == userRole = requiredRole
\* hasRequiredRole: admin has access to everything, a user needs the exact role
hasRequiredRole(userRole, requiredRole) ==
    IF userRole = RoleAdmin THEN TRUE ELSE userRole = requiredRole

NoContextSession == [nil |-> TRUE, LinuxDoID |-> 0, Role |-> ""]
NoRoleCheck == [check |-> "", requiredRole |-> "", role |-> "", result |-> ""]
NotDetermined == [called |-> FALSE, linuxDoID |-> 0, username |-> "", role |-> "", byUsername |-> ""]

RoleUserIDs == {7, 8}
RoleUsernames == {"", "alice", "Alice", "bob"}
AdminUsernameLists == SUBSET {"", "Alice", "bob"}
RequiredRoles == {RoleUser, RoleAdmin, "donor"}

\* NewDonationModule: without Linux Do Connect credentials the module is not
\* configured and holds no role service
InitRoles ==
    /\ isConfigured \in BOOLEAN
    /\ IF isConfigured
       THEN \E ids \in SUBSET RoleUserIDs, usernames \in AdminUsernameLists :
               roleService = NewRoleService(ids, usernames)
       ELSE roleService = NilRoleService
    /\ ctxSession = NoContextSession
    /\ roleCheck = NoRoleCheck
    /\ determined = NotDetermined

\* RoleService.AddAdmin
AddAdmin(linuxDoID) ==
    /\ ~roleService.nil
    /\ roleService' = [roleService EXCEPT !.adminIDs = @ \cup {linuxDoID}]
    /\ UNCHANGED <<isConfigured, ctxSession, roleCheck, determined>>

\* RoleService.RemoveAdmin
RemoveAdmin(linuxDoID) ==
    /\ ~roleService.nil
    /\ roleService' = [roleService EXCEPT !.adminIDs = @ \ {linuxDoID}]
    /\ UNCHANGED <<isConfigured, ctxSession, roleCheck, determined>>

\* a DetermineRole call of either variant
CallDetermineRole(linuxDoID, username) ==
    /\ determined' = [called |-> TRUE, linuxDoID |-> linuxDoID, username |-> username,
                      role |-> DetermineRole(roleService, linuxDoID),
                      byUsername |-> DetermineRoleByUsername(roleService, linuxDoID, username)]
    /\ UNCHANGED <<isConfigured, roleService, ctxSession, roleCheck>>

\* HandleCallback gives the new session the role DetermineRole(user.ID) returns;
\* AuthMiddleware later puts that session into the context of a request.  The
\* routes exist only when the module is configured.
SessionIntoContext(linuxDoID) ==
    /\ isConfigured
    /\ ctxSession' = [nil |-> FALSE, LinuxDoID |-> linuxDoID,
                      Role |-> DetermineRole(roleService, linuxDoID)]
    /\ UNCHANGED <<isConfigured, roleService, roleCheck, determined>>

\* a request without a session
NoSessionInContext ==
    /\ ctxSession' = NoContextSession
    /\ UNCHANGED <<isConfigured, roleService, roleCheck, determined>>

\* RoleMiddleware(requiredRole); AdminOnlyMiddleware is RoleMiddleware(RoleAdmin)
RoleMiddleware(requiredRole) ==
    /\ roleCheck' = [check |-> "RoleMiddleware", requiredRole |-> requiredRole,
                     role |-> ctxSession.Role,
                     result |-> IF ctxSession.nil THEN "401"
                                ELSE IF ~hasRequiredRole(ctxSession.Role, requiredRole) THEN "403"
                                ELSE "Next"]
    /\ UNCHANGED <<isConfigured, roleService, ctxSession, determined>>

\* DonationModule.CheckAdminAccess
CheckAdminAccess ==
    /\ roleCheck' = [check |-> "CheckAdminAccess", requiredRole |-> RoleAdmin,
                     role |-> ctxSession.Role,
                     result |-> IF ~isConfigured THEN "true"
                                ELSE IF ctxSession.nil THEN "true"
                                ELSE IF ctxSession.Role = RoleAdmin THEN "true" ELSE "false"]
    /\ UNCHANGED <<isConfigured, roleService, ctxSession, determined>>

(***************************************************************************)
(* OAuth login and callback.  HandleLogin stores a fresh state in the      *)
(* oauth_state cookie; HandleCallback checks the error parameter, the      *)
(* state, the code, exchanges the code, fetches the user and only then     *)
(* creates the session.  The cookie a request carries is the client's      *)
(* choice; the calls to the identity provider and the random source may    *)
(* fail.                                                                   *)
(***************************************************************************)
MaxCallbackSessions == 2
OAuthStates == {"s1", "s2"}

NoLoginResponse == [status |-> 0, state |-> ""]
NoCallbackResponse == [status |-> 0, error |-> "", location |-> "", sessionCookie |-> 0]
NoQuery ==
    [error |-> "", state |-> "", code |-> "", oauth_state |-> "", exchange |-> FALSE,
     userInfo |-> FALSE, token |-> FALSE, user |-> 0, bound |-> FALSE]

CallbackQueries ==
    [error : {"", "access_denied"}, state : {""} \cup OAuthStates, code : {"", "c1"},
     oauth_state : {""} \cup OAuthStates, exchange : BOOLEAN, userInfo : BOOLEAN,
     token : BOOLEAN, user : {7}, bound : BOOLEAN]

InitCallback ==
    /\ oauthCookie = "" /\ loginResponse = NoLoginResponse /\ cbQuery = NoQuery
    /\ cbCalls = <<>> /\ cbResponse = NoCallbackResponse /\ cbSessions = {}

\* HandleLogin: generateState, the oauth_state cookie, GenerateAuthURL, redirect
HandleLogin(state, redirectURI) ==
    /\ IF state = "" THEN
          /\ loginResponse' = [status |-> 500, state |-> ""]
          /\ UNCHANGED oauthCookie
       ELSE
          /\ oauthCookie' = state
          /\ loginResponse' = IF redirectURI = "" THEN [status |-> 500, state |-> ""]
                              ELSE [status |-> 302, state |-> state]
    /\ UNCHANGED <<cbQuery, cbCalls, cbResponse, cbSessions>>

Fail(status, error, calls, cleared) ==
    [status |-> status, error |-> error, calls |-> calls, cleared |-> cleared, create |-> FALSE]

CallbackOutcomeEmptyStateAccepted(q) ==
    IF q.error # "" THEN Fail(400, q.error, <<>>, FALSE)
    ELSE IF q.state # q.oauth_state THEN Fail(400, "invalid_state", <<>>, FALSE)
    ELSE IF q.code = "" THEN Fail(400, "missing_code", <<>>, TRUE)
    ELSE IF ~q.exchange THEN Fail(500, "token_exchange_failed", <<"ExchangeToken">>, TRUE)
    ELSE IF ~q.userInfo THEN
        Fail(500, "user_info_failed", <<"ExchangeToken", "GetUserInfo">>, TRUE)
    ELSE IF ~q.token THEN
        Fail(500, "session_failed", <<"ExchangeToken", "GetUserInfo", "DetermineRole", "Create">>, TRUE)
    ELSE [status |-> 302, error |-> "", cleared |-> TRUE, create |-> TRUE,
          calls |-> <<"ExchangeToken", "GetUserInfo", "DetermineRole", "Create",
                      "GetByLinuxDoID", "SetSessionCookie">>]
\* HandleCallback up to the session: the checks in the order of the code, the
\* calls made on the way, and whether the session is created
CallbackOutcome(q) ==
    IF q.error # "" THEN Fail(400, q.error, <<>>, FALSE)
    ELSE IF q.state = "" \/ q.state # q.oauth_state THEN Fail(400, "invalid_state", <<>>, FALSE)
    ELSE IF q.code = "" THEN Fail(400, "missing_code", <<>>, TRUE)
    ELSE IF ~q.exchange THEN Fail(500, "token_exchange_failed", <<"ExchangeToken">>, TRUE)
    ELSE IF ~q.userInfo THEN
        Fail(500, "user_info_failed", <<"ExchangeToken", "GetUserInfo">>, TRUE)
    ELSE IF ~q.token THEN
        Fail(500, "session_failed", <<"ExchangeToken", "GetUserInfo", "DetermineRole", "Create">>, TRUE)
    ELSE [status |-> 302, error |-> "", cleared |-> TRUE, create |-> TRUE,
          calls |-> <<"ExchangeToken", "GetUserInfo", "DetermineRole", "Create",
                      "GetByLinuxDoID", "SetSessionCookie">>]

\* HandleCallback
HandleOAuthCallback(q) ==
    /\ Cardinality(cbSessions) < MaxCallbackSessions
    /\ cbQuery' = q
    /\ \E o \in {CallbackOutcome(q)} :
          /\ cbCalls' = o.calls
          /\ oauthCookie' = IF o.cleared THEN "" ELSE oauthCookie
          /\ IF o.create THEN
                \E id \in {Cardinality(cbSessions) + 1} :
                   /\ cbSessions' = cbSessions \cup {id}
                   /\ cbResponse' = [status |-> 302, error |-> "", sessionCookie |-> id,
                                     location |-> IF q.bound THEN "/donate" ELSE "/bind"]
             ELSE
                /\ cbSessions' = cbSessions
                /\ cbResponse' = [status |-> o.status, error |-> o.error,
                                  location |-> "", sessionCookie |-> 0]
    /\ UNCHANGED loginResponse

(***************************************************************************)
(* The binding store.  BindingStore keeps a map from Linux Do ID to the    *)
(* binding and writes all of it to bindings.json on every Create and       *)
(* Delete; NewBindingStore reads the file back.  A time.Time is its wall   *)
(* clock instant and, for values of time.Now(), a monotonic reading; JSON  *)
(* carries the instant only.  The map is iterated in any order.            *)
(***************************************************************************)
MaxBindTime == 2
BindLinuxDoIDs == {7, 8}
BindNewAPIUserIDs == {1, 2}

ZeroTime == [wall |-> 0, mono |-> FALSE]
\* time.Now()
TimeNow == [wall |-> bindNow, mono |-> TRUE]
MarshalTimeWithoutInstant(t) == <<"RFC3339", 0>>
\* Time.MarshalJSON and Time.UnmarshalJSON: the RFC 3339 text of the instant
MarshalTime(t) == <<"RFC3339", t.wall>>
UnmarshalTime(text) == [wall |-> text[2], mono |-> FALSE]

\* json.Marshal and json.Unmarshal of a UserBinding
MarshalBinding(b) ==
    [linux_do_id |-> b.LinuxDoID, newapi_user_id |-> b.NewAPIUserID,
     bound_at |-> MarshalTime(b.BoundAt)]
UnmarshalBinding(j) ==
    [LinuxDoID |-> j.linux_do_id, NewAPIUserID |-> j.newapi_user_id,
     BoundAt |-> UnmarshalTime(j.bound_at)]

NoFile == [exists |-> FALSE, Bindings |-> <<>>]

\* the orders in which a map with these values can be iterated
IterationOrders(values) ==
    {order \in [1..Cardinality(values) -> values] :
        \A i, j \in DOMAIN order : i # j => order[i] # order[j]}

\* map assignment: s.bindings[binding.LinuxDoID] = binding
Assign(values, binding) ==
    {b \in values : b.LinuxDoID # binding.LinuxDoID} \cup {binding}

\* BindingStore.load: later entries of the file replace earlier ones of the same id
RECURSIVE LoadEntries(_, _)
LoadEntries(entries, values) ==
    IF entries = <<>> THEN values
    ELSE LoadEntries(Tail(entries), Assign(values, UnmarshalBinding(Head(entries))))
load(file) == IF file.exists THEN LoadEntries(file.Bindings, {}) ELSE {}

\* BindingStore.save: the file a successful save can leave
save(values) ==
    {[exists |-> TRUE, Bindings |-> [i \in DOMAIN order |-> MarshalBinding(order[i])]] :
        order \in IterationOrders(values)}

\* BindingStore.GetByLinuxDoID, as the set of bindings found (empty for nil)
GetByLinuxDoID(values, linuxDoID) == {b \in values : b.LinuxDoID = linuxDoID}

NoBinding == [LinuxDoID |-> 0, NewAPIUserID |-> 0, BoundAt |-> ZeroTime]
NoBindCall == [op |-> "", binding |-> NoBinding, previous |-> {}, err |-> FALSE]
UserBindings ==
    [LinuxDoID : BindLinuxDoIDs, NewAPIUserID : BindNewAPIUserIDs,
     BoundAt : {ZeroTime, [wall |-> 1, mono |-> FALSE]}]

InitBindings ==
    /\ storeBindings = {} /\ bindingsJSON = NoFile /\ bindNow = 1
    /\ bindSaved = {} /\ bindLast = NoBindCall

\* the in-memory change is kept whether or not the file could be written
SaveAfter(values, writeOK) ==
    IF writeOK
    THEN bindingsJSON' \in save(values) /\ bindSaved' = values
    ELSE UNCHANGED <<bindingsJSON, bindSaved>>

\* BindingStore.Create(binding): a zero BoundAt becomes time.Now(), which is also
\* what HandleBind passes
Create(binding, writeOK) ==
    \E b \in {IF binding.BoundAt.wall = 0
              THEN [binding EXCEPT !.BoundAt = TimeNow] ELSE binding} :
       /\ storeBindings' = Assign(storeBindings, b)
       /\ SaveAfter(storeBindings', writeOK)
       /\ bindLast' = [op |-> "Create", binding |-> b,
                       previous |-> GetByLinuxDoID(storeBindings, b.LinuxDoID),
                       err |-> ~writeOK]
       /\ UNCHANGED bindNow

\* BindingStore.Create(nil)
CreateNil ==
    /\ bindLast' = [op |-> "Create", binding |-> NoBinding, previous |-> {},
                    err |-> FALSE]
    /\ UNCHANGED <<storeBindings, bindingsJSON, bindSaved, bindNow>>

\* BindingStore.Delete(linuxDoID)
DeleteBinding(linuxDoID, writeOK) ==
    /\ storeBindings' = {b \in storeBindings : b.LinuxDoID # linuxDoID}
    /\ SaveAfter(storeBindings', writeOK)
    /\ bindLast' = [op |-> "Delete", binding |-> NoBinding, previous |-> {},
                    err |-> ~writeOK]
    /\ UNCHANGED bindNow

\* NewBindingStore(baseDir) on the directory of the file: a restart of the server
NewBindingStore ==
    /\ storeBindings' = load(bindingsJSON)
    /\ bindLast' = [op |-> "NewBindingStore", binding |-> NoBinding,
                    previous |-> {}, err |-> FALSE]
    /\ UNCHANGED <<bindingsJSON, bindSaved, bindNow>>

BindTick ==
    /\ bindNow < MaxBindTime
    /\ bindNow' = bindNow + 1
    /\ UNCHANGED <<storeBindings, bindingsJSON, bindSaved, bindLast>>

(***************************************************************************)
(* The composite edge openai_responses -> antigravity.  The two edges it   *)
(* is made of are functions of the model name, the bytes and the stream    *)
(* flag whose results are kept as terms; each may also write into the      *)
(* slice it is given.  Slices are cells of a heap: 1 is the caller's, 2    *)
(* the one bytes.Clone allocates, 3 the Gemini request.                    *)
(***************************************************************************)
ConvertOpenAIResponsesRequestToGemini(modelName, rawJSON, stream) ==
    <<"gemini", modelName, rawJSON, stream>>

ConvertGeminiRequestToAntigravity(modelName, rawJSON, stream) ==
    <<"antigravity", modelName, rawJSON, stream>>

CallerSlice == 1
GeminiSlice == 3
Overwritten == "overwritten"

CloneSameSlice(slice) == slice
\* bytes.Clone: a new slice; the caller of Clone copies the content into it
Clone(slice) == slice + 1

TranslatorModels == {"gemini-3-pro-preview", "gemini-2.5-flash", "claude-sonnet-4-5"}
ResponsesPayloads == {"empty", "input-text", "input-messages", "tools", "reasoning"}

NoTranslation == [done |-> FALSE, value |-> <<>>]
NoTranslatorInput == [modelName |-> "", inputRawJSON |-> "", stream |-> FALSE]
EmptyHeap == [slice \in 1..3 |-> ""]

InitTranslator ==
    /\ trInput = NoTranslatorInput /\ trHeap = EmptyHeap /\ trResult = NoTranslation

\* what a callee leaves in the slice it was given
After(heap, slice, writes) == IF writes THEN [heap EXCEPT ![slice] = Overwritten] ELSE heap

\* ConvertOpenAIResponsesRequestToAntigravity(modelName, inputRawJSON, stream);
\* writes1 and writes2: whether the first and the second edge write into their argument
ConvertOpenAIResponsesRequestToAntigravity(modelName, inputRawJSON, stream, writes1, writes2) ==
    \E rawJSON \in {Clone(CallerSlice)} :
       \E h0 \in {[EmptyHeap EXCEPT ![CallerSlice] = inputRawJSON]} :
          \E h1 \in {[h0 EXCEPT ![rawJSON] = h0[CallerSlice]]} :
             \E gemini \in {ConvertOpenAIResponsesRequestToGemini(modelName, h1[rawJSON], stream)} :
                \E h2 \in {[After(h1, rawJSON, writes1) EXCEPT ![GeminiSlice] = gemini]} :
                   /\ trResult' = [done |-> TRUE,
                                   value |-> ConvertGeminiRequestToAntigravity(
                                                 modelName, h2[GeminiSlice], stream)]
                   /\ trHeap' = After(h2, GeminiSlice, writes2)
                   /\ trInput' = [modelName |-> modelName, inputRawJSON |-> inputRawJSON,
                                  stream |-> stream]

(***************************************************************************)
(* Loading a configuration with legacy fields.  The file is the set of its *)
(* fields: gemini-api-key (entries with an api-key), the legacy            *)
(* generative-language-api-key (plain keys), and openai-compatibility, a   *)
(* list of entries with name, base-url, api-key-entries and the legacy     *)
(* api-keys.  LoadConfig moves the legacy keys into the new fields and     *)
(* writes the file back without the legacy fields.                         *)
(***************************************************************************)
MaxCompat == 2

LegacyFields == {"generative-language-api-key", "api-keys"}

\* the value of a field, or nothing when the field is not there
FieldOr(object, field) == IF field \in DOMAIN object THEN object[field] ELSE <<>>

KeysOf(entries) == {entries[i]["api-key"] : i \in DOMAIN entries}

\* legacy keys become entries of the new field unless the key is there already
RECURSIVE AppendMissing(_, _)
AppendMissing(entries, legacy) ==
    IF legacy = <<>> THEN entries
    ELSE AppendMissing(IF Head(legacy) \in KeysOf(entries) THEN entries
                       ELSE Append(entries, [f \in {"api-key"} |-> Head(legacy)]),
                       Tail(legacy))

\* the migration of one openai-compatibility entry
MigrateCompat(entry) ==
    [f \in (DOMAIN entry \ LegacyFields) \cup {"api-key-entries"} |->
        IF f = "api-key-entries"
        THEN AppendMissing(FieldOr(entry, "api-key-entries"), FieldOr(entry, "api-keys"))
        ELSE entry[f]]

\* every entry of the same name gets the legacy keys of the last entry of that name
MigrateCompatListByName(list) ==
    [i \in DOMAIN list |->
        LET last == CHOOSE j \in DOMAIN list :
                        /\ list[j]["name"] = list[i]["name"]
                        /\ \A h \in DOMAIN list : list[h]["name"] = list[i]["name"] => h <= j
        IN [f \in (DOMAIN list[i] \ LegacyFields) \cup {"api-key-entries"} |->
               IF f = "api-key-entries"
               THEN AppendMissing(FieldOr(list[i], "api-key-entries"), FieldOr(list[last], "api-keys"))
               ELSE list[i][f]]]
\* the migration of the openai-compatibility list: entry by entry, by position
MigrateCompatList(list) == [i \in DOMAIN list |-> MigrateCompat(list[i])]

HasLegacy(file) ==
    \/ "generative-language-api-key" \in DOMAIN file
    \/ \E i \in DOMAIN file["openai-compatibility"] :
          "api-keys" \in DOMAIN file["openai-compatibility"][i]

\* the file LoadConfig leaves: untouched without legacy fields, else migrated
Migrate(file) ==
    IF ~HasLegacy(file) THEN file
    ELSE [f \in (DOMAIN file \ LegacyFields) \cup {"gemini-api-key"} |->
            IF f = "gemini-api-key"
            THEN AppendMissing(FieldOr(file, "gemini-api-key"),
                               FieldOr(file, "generative-language-api-key"))
            ELSE IF f = "openai-compatibility" THEN MigrateCompatList(file[f])
            ELSE file[f]]

\* yaml.Unmarshal of the migrated file into config.Config
Parse(file) ==
    [GeminiKey |-> [i \in DOMAIN FieldOr(file, "gemini-api-key") |->
                       [APIKey |-> file["gemini-api-key"][i]["api-key"]]],
     OpenAICompatibility |->
        [i \in DOMAIN file["openai-compatibility"] |->
            LET e == file["openai-compatibility"][i]
            IN [Name |-> e["name"], BaseURL |-> e["base-url"],
                APIKeyEntries |-> [j \in DOMAIN FieldOr(e, "api-key-entries") |->
                                      [APIKey |-> e["api-key-entries"][j]["api-key"]]]]]]

\* the fields a file is written with
NotWritten == [present |-> FALSE, value |-> <<>>]
Given(v) == [present |-> TRUE, value |-> v]
Fields(pairs) ==
    [f \in {p[1] : p \in {q \in pairs : q[2].present}} |->
        (CHOOSE p \in pairs : p[1] = f)[2].value]

NewEntryLists == {NotWritten, Given(<<[f \in {"api-key"} |-> "k1"]>>)}
LegacyKeyLists == {NotWritten, Given(<<"k1">>), Given(<<"k2">>), Given(<<"k2", "k1">>)}
CompatEntries ==
    {Fields({<<"name", Given(n)>>, <<"base-url", Given(b)>>,
             <<"api-key-entries", new>>, <<"api-keys", legacy>>}) :
        n \in {"dup-provider"}, b \in {"https://provider-a", "https://provider-b"},
        new \in NewEntryLists, legacy \in LegacyKeyLists}
CompatLists == UNION {[1..n -> CompatEntries] : n \in 0..MaxCompat}
ConfigFiles ==
    {Fields({<<"port", Given(8080)>>, <<"gemini-api-key", new>>,
             <<"generative-language-api-key", legacy>>,
             <<"openai-compatibility", Given(list)>>}) :
        new \in NewEntryLists, legacy \in LegacyKeyLists, list \in CompatLists}

NotLoaded == [loaded |-> FALSE, GeminiKey |-> <<>>, OpenAICompatibility |-> <<>>]
NoConfigFile == [f \in {"openai-compatibility"} |-> <<>>]

InitMigration ==
    /\ configFile \in ConfigFiles /\ configBefore = NoConfigFile /\ loadedConfig = NotLoaded

\* config.LoadConfig(path)
LoadConfig ==
    /\ configBefore' = configFile
    /\ configFile' = Migrate(configFile)
    /\ loadedConfig' = [loaded |-> TRUE] @@ Parse(configFile')

\* the state of each subsystem while another one is examined
IdleRewriter ==
    /\ originalModel = "" /\ contentType = "" /\ isStreaming = FALSE /\ body = <<>>
    /\ client = <<>> /\ upstream = <<>> /\ written = <<>> /\ flushes = 0
IdleAuth == name = "" /\ keys = {} /\ request = <<>> /\ authResult = NoResult

IdleAccess == InitAccess
IdleThinking ==
    /\ thModel = "" /\ thBudget = 0 /\ thEffort = ""
    /\ toEffort = NotConverted(NoEffort) /\ toBudget = NotConverted(NoBudget)
    /\ roundTrip = NotConverted(NoEffort)

IdlePipeline ==
    /\ fromProtocol = "" /\ toProtocol = "" /\ targetModel = ""
    /\ thinkingParam = NoThinking /\ viaSuffix = FALSE /\ payload = NotBuilt

IdleGemini3 ==
    /\ g3Model = "" /\ g3Level = "" /\ g3Metadata = NilMetadata
    /\ g3InputBody = Body(FALSE, 0, FALSE, "", FALSE, FALSE) /\ g3CLI = FALSE
    /\ g3Validated = NotCalled /\ g3Normalized = NotCalled /\ g3Applied = NotCalled

IdleDonation ==
    /\ donationCfg = [custom |-> FALSE, ttl |-> 0, quota |-> 0]
    /\ ttl = NewSessionStore /\ quotaAmount = DefaultQuotaAmount /\ now = 0
    /\ issued = {} /\ sessions = {} /\ sessionObjects = [t \in Tokens |-> NilSession]
    /\ bindings = [u \in LinuxDoIDs |-> 0] /\ reqs = [r \in 1..MaxRequests |-> IdleRequest]

IdleRoles ==
    /\ isConfigured = FALSE /\ roleService = NilRoleService /\ ctxSession = NoContextSession
    /\ roleCheck = NoRoleCheck /\ determined = NotDetermined

IdleCallback == InitCallback

IdleBindings == InitBindings

IdleTranslator == InitTranslator

IdleMigration == configFile = NoConfigFile /\ configBefore = NoConfigFile /\ loadedConfig = NotLoaded

vars == <<rwVars, authVars, accessVars, thinkVars, pipeVars, g3Vars, donationVars, roleVars, callbackVars, bindingVars, translatorVars, migrationVars>>

StartRewriter == InitRewriter /\ IdleAuth /\ IdleAccess /\ IdleThinking /\ IdlePipeline /\ IdleGemini3 /\ IdleDonation /\ IdleRoles /\ IdleCallback /\ IdleBindings /\ IdleTranslator /\ IdleMigration
StepRewriter ==
    \/ (\E n \in 1..MaxChunk : Write(n)) /\ UNCHANGED <<authVars, accessVars, thinkVars, pipeVars, g3Vars, donationVars, roleVars, callbackVars, bindingVars, translatorVars, migrationVars>>
    \/ Flush /\ UNCHANGED <<authVars, accessVars, thinkVars, pipeVars, g3Vars, donationVars, roleVars, callbackVars, bindingVars, translatorVars, migrationVars>>
SpecRewriter == StartRewriter /\ [][StepRewriter]_vars

StartAuth == InitAuth /\ IdleRewriter /\ IdleAccess /\ IdleThinking /\ IdlePipeline /\ IdleGemini3 /\ IdleDonation /\ IdleRoles /\ IdleCallback /\ IdleBindings /\ IdleTranslator /\ IdleMigration
StepAuth == DoAuthenticate /\ UNCHANGED <<rwVars, accessVars, thinkVars, pipeVars, g3Vars, donationVars, roleVars, callbackVars, bindingVars, translatorVars, migrationVars>>
SpecAuth == StartAuth /\ [][StepAuth]_vars

StartAccess == InitAccess /\ IdleRewriter /\ IdleAuth /\ IdleThinking /\ IdlePipeline /\ IdleGemini3 /\ IdleDonation /\ IdleRoles /\ IdleCallback /\ IdleBindings /\ IdleTranslator /\ IdleMigration
StepAccess == AccessNext /\ UNCHANGED <<rwVars, authVars, thinkVars, pipeVars, g3Vars, donationVars, roleVars, callbackVars, bindingVars, translatorVars, migrationVars>>
SpecAccess == StartAccess /\ [][StepAccess]_vars

StartThinking == InitThinking /\ IdleRewriter /\ IdleAuth /\ IdleAccess /\ IdlePipeline /\ IdleGemini3 /\ IdleDonation /\ IdleRoles /\ IdleCallback /\ IdleBindings /\ IdleTranslator /\ IdleMigration
StepThinking ==
    \/ BudgetToEffort /\ UNCHANGED <<rwVars, authVars, accessVars, pipeVars, g3Vars, donationVars, roleVars, callbackVars, bindingVars, translatorVars, migrationVars>>
    \/ EffortToBudget /\ UNCHANGED <<rwVars, authVars, accessVars, pipeVars, g3Vars, donationVars, roleVars, callbackVars, bindingVars, translatorVars, migrationVars>>
    \/ BackToEffort /\ UNCHANGED <<rwVars, authVars, accessVars, pipeVars, g3Vars, donationVars, roleVars, callbackVars, bindingVars, translatorVars, migrationVars>>
SpecThinking == StartThinking /\ [][StepThinking]_vars

StartPipeline == InitPipeline /\ IdleRewriter /\ IdleAuth /\ IdleAccess /\ IdleThinking /\ IdleGemini3 /\ IdleDonation /\ IdleRoles /\ IdleCallback /\ IdleBindings /\ IdleTranslator /\ IdleMigration
StepPipeline ==
    \/ buildBodyForProtocol /\ UNCHANGED <<rwVars, authVars, accessVars, thinkVars, g3Vars, donationVars, roleVars, callbackVars, bindingVars, translatorVars, migrationVars>>
    \/ buildBodyForProtocolWithRawThinking /\ UNCHANGED <<rwVars, authVars, accessVars, thinkVars, g3Vars, donationVars, roleVars, callbackVars, bindingVars, translatorVars, migrationVars>>
SpecPipeline == StartPipeline /\ [][StepPipeline]_vars

StartGemini3 == InitGemini3 /\ IdleRewriter /\ IdleAuth /\ IdleAccess /\ IdleThinking /\ IdlePipeline /\ IdleDonation /\ IdleRoles /\ IdleCallback /\ IdleBindings /\ IdleTranslator /\ IdleMigration
StepGemini3 ==
    \/ ValidateLevel /\ UNCHANGED <<rwVars, authVars, accessVars, thinkVars, pipeVars, donationVars, roleVars, callbackVars, bindingVars, translatorVars, migrationVars>>
    \/ NormalizeBudget /\ UNCHANGED <<rwVars, authVars, accessVars, thinkVars, pipeVars, donationVars, roleVars, callbackVars, bindingVars, translatorVars, migrationVars>>
    \/ ApplyLevelFromMetadata /\ UNCHANGED <<rwVars, authVars, accessVars, thinkVars, pipeVars, donationVars, roleVars, callbackVars, bindingVars, translatorVars, migrationVars>>
SpecGemini3 == StartGemini3 /\ [][StepGemini3]_vars

StartDonation == InitDonation /\ IdleRewriter /\ IdleAuth /\ IdleAccess /\ IdleThinking /\ IdlePipeline /\ IdleGemini3 /\ IdleRoles /\ IdleCallback /\ IdleBindings /\ IdleTranslator /\ IdleMigration
StepDonation ==
    \/ Tick /\ UNCHANGED <<rwVars, authVars, accessVars, thinkVars, pipeVars, g3Vars, roleVars, callbackVars, bindingVars, translatorVars, migrationVars>>
    \/ (\E user \in LinuxDoIDs : HandleCallback(user))
           /\ UNCHANGED <<rwVars, authVars, accessVars, thinkVars, pipeVars, g3Vars, roleVars, callbackVars, bindingVars, translatorVars, migrationVars>>
    \/ (\E r \in 1..MaxRequests, route \in Routes, cookie \in Cookies : AuthMiddleware(r, route, cookie))
           /\ UNCHANGED <<rwVars, authVars, accessVars, thinkVars, pipeVars, g3Vars, roleVars, callbackVars, bindingVars, translatorVars, migrationVars>>
    \/ (\E r \in 1..MaxRequests : HandleLogout(r))
           /\ UNCHANGED <<rwVars, authVars, accessVars, thinkVars, pipeVars, g3Vars, roleVars, callbackVars, bindingVars, translatorVars, migrationVars>>
    \/ (\E r \in 1..MaxRequests : HandleDonatePage(r))
           /\ UNCHANGED <<rwVars, authVars, accessVars, thinkVars, pipeVars, g3Vars, roleVars, callbackVars, bindingVars, translatorVars, migrationVars>>
    \/ (\E r \in 1..MaxRequests : HandleDonateConfirm(r))
           /\ UNCHANGED <<rwVars, authVars, accessVars, thinkVars, pipeVars, g3Vars, roleVars, callbackVars, bindingVars, translatorVars, migrationVars>>
    \/ (\E r \in 1..MaxRequests : HandleBind(r))
           /\ UNCHANGED <<rwVars, authVars, accessVars, thinkVars, pipeVars, g3Vars, roleVars, callbackVars, bindingVars, translatorVars, migrationVars>>
    \/ (\E r \in 1..MaxRequests : HandleBindUpdate(r))
           /\ UNCHANGED <<rwVars, authVars, accessVars, thinkVars, pipeVars, g3Vars, roleVars, callbackVars, bindingVars, translatorVars, migrationVars>>
SpecDonation == StartDonation /\ [][StepDonation]_vars

StartRoles == InitRoles /\ IdleRewriter /\ IdleAuth /\ IdleAccess /\ IdleThinking /\ IdlePipeline /\ IdleGemini3 /\ IdleDonation /\ IdleCallback /\ IdleBindings /\ IdleTranslator /\ IdleMigration
StepRoles ==
    \/ \E id \in RoleUserIDs : AddAdmin(id) /\ UNCHANGED <<rwVars, authVars, accessVars, thinkVars, pipeVars, g3Vars, donationVars, callbackVars, bindingVars, translatorVars, migrationVars>>
    \/ \E id \in RoleUserIDs : RemoveAdmin(id) /\ UNCHANGED <<rwVars, authVars, accessVars, thinkVars, pipeVars, g3Vars, donationVars, callbackVars, bindingVars, translatorVars, migrationVars>>
    \/ \E id \in RoleUserIDs, u \in RoleUsernames : CallDetermineRole(id, u) /\ UNCHANGED <<rwVars, authVars, accessVars, thinkVars, pipeVars, g3Vars, donationVars, callbackVars, bindingVars, translatorVars, migrationVars>>
    \/ \E id \in RoleUserIDs : SessionIntoContext(id) /\ UNCHANGED <<rwVars, authVars, accessVars, thinkVars, pipeVars, g3Vars, donationVars, callbackVars, bindingVars, translatorVars, migrationVars>>
    \/ NoSessionInContext /\ UNCHANGED <<rwVars, authVars, accessVars, thinkVars, pipeVars, g3Vars, donationVars, callbackVars, bindingVars, translatorVars, migrationVars>>
    \/ \E rr \in RequiredRoles : RoleMiddleware(rr) /\ UNCHANGED <<rwVars, authVars, accessVars, thinkVars, pipeVars, g3Vars, donationVars, callbackVars, bindingVars, translatorVars, migrationVars>>
    \/ CheckAdminAccess /\ UNCHANGED <<rwVars, authVars, accessVars, thinkVars, pipeVars, g3Vars, donationVars, callbackVars, bindingVars, translatorVars, migrationVars>>
SpecRoles == StartRoles /\ [][StepRoles]_vars

StartCallback == InitCallback /\ IdleRewriter /\ IdleAuth /\ IdleAccess /\ IdleThinking /\ IdlePipeline /\ IdleGemini3 /\ IdleDonation /\ IdleRoles /\ IdleBindings /\ IdleTranslator /\ IdleMigration
StepCallback ==
    \/ \E state \in {""} \cup OAuthStates, uri \in {"", "https://example.org/linuxdo/callback"} : HandleLogin(state, uri) /\ UNCHANGED <<rwVars, authVars, accessVars, thinkVars, pipeVars, g3Vars, donationVars, roleVars, bindingVars, translatorVars, migrationVars>>
    \/ \E q \in CallbackQueries : HandleOAuthCallback(q) /\ UNCHANGED <<rwVars, authVars, accessVars, thinkVars, pipeVars, g3Vars, donationVars, roleVars, bindingVars, translatorVars, migrationVars>>
SpecCallback == StartCallback /\ [][StepCallback]_vars

StartBindings == InitBindings /\ IdleRewriter /\ IdleAuth /\ IdleAccess /\ IdleThinking /\ IdlePipeline /\ IdleGemini3 /\ IdleDonation /\ IdleRoles /\ IdleCallback /\ IdleTranslator /\ IdleMigration
StepBindings ==
    \/ \E b \in UserBindings, writeOK \in BOOLEAN : Create(b, writeOK) /\ UNCHANGED <<rwVars, authVars, accessVars, thinkVars, pipeVars, g3Vars, donationVars, roleVars, callbackVars, translatorVars, migrationVars>>
    \/ CreateNil /\ UNCHANGED <<rwVars, authVars, accessVars, thinkVars, pipeVars, g3Vars, donationVars, roleVars, callbackVars, translatorVars, migrationVars>>
    \/ \E id \in BindLinuxDoIDs, writeOK \in BOOLEAN : DeleteBinding(id, writeOK) /\ UNCHANGED <<rwVars, authVars, accessVars, thinkVars, pipeVars, g3Vars, donationVars, roleVars, callbackVars, translatorVars, migrationVars>>
    \/ NewBindingStore /\ UNCHANGED <<rwVars, authVars, accessVars, thinkVars, pipeVars, g3Vars, donationVars, roleVars, callbackVars, translatorVars, migrationVars>>
    \/ BindTick /\ UNCHANGED <<rwVars, authVars, accessVars, thinkVars, pipeVars, g3Vars, donationVars, roleVars, callbackVars, translatorVars, migrationVars>>
SpecBindings == StartBindings /\ [][StepBindings]_vars

StartTranslator == InitTranslator /\ IdleRewriter /\ IdleAuth /\ IdleAccess /\ IdleThinking /\ IdlePipeline /\ IdleGemini3 /\ IdleDonation /\ IdleRoles /\ IdleCallback /\ IdleBindings /\ IdleMigration
StepTranslator ==
    \E m \in TranslatorModels, raw \in ResponsesPayloads, s \in BOOLEAN, w1 \in BOOLEAN, w2 \in BOOLEAN :
        ConvertOpenAIResponsesRequestToAntigravity(m, raw, s, w1, w2) /\ UNCHANGED <<rwVars, authVars, accessVars, thinkVars, pipeVars, g3Vars, donationVars, roleVars, callbackVars, bindingVars, migrationVars>>
SpecTranslator == StartTranslator /\ [][StepTranslator]_vars

StartMigration == InitMigration /\ IdleRewriter /\ IdleAuth /\ IdleAccess /\ IdleThinking /\ IdlePipeline /\ IdleGemini3 /\ IdleDonation /\ IdleRoles /\ IdleCallback /\ IdleBindings /\ IdleTranslator
StepMigration ==
    \/ LoadConfig /\ UNCHANGED <<rwVars, authVars, accessVars, thinkVars, pipeVars, g3Vars, donationVars, roleVars, callbackVars, bindingVars, translatorVars>>
SpecMigration == StartMigration /\ [][StepMigration]_vars

(***************************************************************************)
(* ResponseRewriter: the claims                                            *)
(***************************************************************************)
\* the SSE data events the client has received: the lines "data: {...}"
ClientEvents ==
    LET lines == SplitNL(client)
    IN {lines[i] : i \in {j \in DOMAIN lines :
                             HasDataPrefix(lines[j]) /\ Len(lines[j]) >= 3 /\ lines[j][3] = LB}}

ModelFieldsOf(line) ==
    {line[i] : i \in {j \in DOMAIN line : line[j].k = "field" /\ line[j].path \in PathSet}}

\* C1: in streaming mode with a non-empty original model, every "data: {json}"
\* event the client has received carries the original model in each of the
\* fields model, modelVersion, response.modelVersion and message.model that
\* it has, however the upstream stream was cut into Write calls.
C1_EveryEventCarriesOriginalModel ==
    (isStreaming /\ originalModel # "") =>
        \A line \in ClientEvents : \A f \in ModelFieldsOf(line) : f.val = originalModel

(***************************************************************************)
(* config-api-key provider: the claims                                     *)
(***************************************************************************)
\* the token of an "Authorization: Bearer <token>" header; "" for any other header
BearerTokenOf(h) ==
    IF Len(h) >= 2 /\ Lower(h[1]) = "bearer" /\ h[2] = " "
    THEN TrimSpace(SubSeq(h, 3, Len(h)))
    ELSE <<>>

HasBearerForm(h) == Len(h) >= 2 /\ Lower(h[1]) = "bearer" /\ h[2] = " "

\* the five presented values of the claim, in its order
PresentedValues(r) ==
    << [value |-> BearerTokenOf(r.authorization), source |-> "authorization"],
       [value |-> r.goog, source |-> "x-goog-api-key"],
       [value |-> r.anthropic, source |-> "x-api-key"],
       [value |-> r.queryKey, source |-> "query-key"],
       [value |-> r.queryAuthToken, source |-> "query-auth-token"] >>

\* the same, the Authorization header standing for itself when it is not of
\* the form "Bearer <token>"
PresentedOrRaw(r) ==
    [PresentedValues(r) EXCEPT ![1].value =
        IF HasBearerForm(r.authorization) THEN @ ELSE r.authorization]

Matches(vals, i) == vals[i].value # <<>> /\ vals[i].value \in keys

OkIffFirstMatch(vals) ==
    authResult # NoResult =>
        /\ authResult.outcome = "ok" <=> \E i \in DOMAIN vals : Matches(vals, i)
        /\ authResult.outcome = "ok" =>
              \E i \in DOMAIN vals :
                  /\ Matches(vals, i)
                  /\ \A h \in 1..(i - 1) : ~Matches(vals, h)
                  /\ authResult.principal = vals[i].value
                  /\ authResult.source = vals[i].source

\* C2 (as claimed): Authenticate returns ok, with the matching key as the
\* principal and the first matching location as the source, if and only if
\* one of the Bearer token of Authorization, X-Goog-Api-Key, X-Api-Key, ?key
\* and ?auth_token is a non-empty configured key.
C2_OkIffPresentedKeyConfigured == OkIffFirstMatch(PresentedValues(request))

\* C2 (amended): the same, where an Authorization header that is not of the
\* form "Bearer <token>" is presented as a whole.
C2_OkIffPresentedOrRawKeyConfigured == OkIffFirstMatch(PresentedOrRaw(request))

\* a matching key in ?auth_token, behind non-matching values in other places
C2_Witness ==
    /\ authResult.outcome = "ok"
    /\ authResult.source = "query-auth-token"
    /\ request.goog = KX
    /\ HasBearerForm(request.authorization)
    /\ BearerTokenOf(request.authorization) = KX

(***************************************************************************)
(* Reconciliation: the claims                                              *)
(***************************************************************************)
Ids(list) == {list[i] : i \in DOMAIN list}
ProviderIds(list) == {list[i].id : i \in DOMAIN list}
Reconciled == ~reconciled.nil /\ ~reconciled.err

\* the declared entries of the new configuration whose type, config and
\* api-keys are those of the previous configuration of the same provider,
\* and whose provider the manager held
UnchangedEntries ==
    LET oldMap == accessProviderMap(oldCfg)
    IN {i \in Declared(cfg) :
          LET key == providerIdentifier(cfg.Providers[i])
          IN /\ key \in DOMAIN oldMap
             /\ oldMap[key].entry.Type = cfg.Providers[i].Type
             /\ oldMap[key].entry.Config = cfg.Providers[i].Config
             /\ oldMap[key].entry.APIKeys = cfg.Providers[i].APIKeys
             /\ key \in ProviderIds(existing)}

ReusedIn(result, key) ==
    \E j \in DOMAIN result : result[j].from # 0 /\ existing[result[j].from].id = key

\* C3: after a reload, every provider whose type, config and api-keys are
\* identical to its previous configuration is the same provider object as
\* before, and its identifier is in none of added, updated and removed.
C3_UnchangedProviderReused ==
    Reconciled =>
        \A i \in UnchangedEntries :
            LET key == providerIdentifier(cfg.Providers[i])
            IN /\ ReusedIn(reconciled.result, key)
               /\ key \notin Ids(reconciled.added) \cup Ids(reconciled.updated)
                              \cup Ids(reconciled.removed)

DistinctIds(list) ==
    \A i, j \in DOMAIN list : providerIdentifier(list[i]) = providerIdentifier(list[j]) => i = j

\* the last reload removed the one provider p and added the one provider q,
\* both named, and left the rest of the configuration as it was
Swapped(p, q) ==
    /\ Reconciled
    /\ ~oldCfg.nil
    /\ oldCfg.APIKeys = cfg.APIKeys
    /\ DistinctIds(oldCfg.Providers) /\ DistinctIds(cfg.Providers)
    /\ Ids(oldCfg.Providers) \ Ids(cfg.Providers) = {p}
    /\ Ids(cfg.Providers) \ Ids(oldCfg.Providers) = {q}
    /\ providerIdentifier(p) # providerIdentifier(q)
    /\ ~isInlineProvider(providerIdentifier(p)) /\ ~isInlineProvider(providerIdentifier(q))
    /\ \A e \in Ids(oldCfg.Providers) : providerIdentifier(e) \in ProviderIds(existing)

\* C4: a reload that removes one provider P and adds another provider Q,
\* the rest unchanged, reports added = [Q], updated = [] and removed = [P],
\* and the resulting provider list holds Q and not P.
C4_SwapReportedAsAddedAndRemoved ==
    \A p, q \in Ids(oldCfg.Providers) \cup Ids(cfg.Providers) :
        Swapped(p, q) =>
            /\ reconciled.added = <<providerIdentifier(q)>>
            /\ reconciled.updated = <<>>
            /\ reconciled.removed = <<providerIdentifier(p)>>
            /\ providerIdentifier(q) \in ProviderIds(reconciled.result)
            /\ providerIdentifier(p) \notin ProviderIds(reconciled.result)

(***************************************************************************)
(* Thinking conversions: the claims                                        *)
(***************************************************************************)
\* the budget of a level name: minimal=512, low=1024, medium=8192,
\* high=24576, xhigh=32768
LevelBudget(l) ==
    CASE l = "minimal" -> 512
      [] l = "low" -> 1024
      [] l = "medium" -> 8192
      [] l = "high" -> 24576
      [] l = "xhigh" -> 32768
      [] OTHER -> 0

\* the smallest level of table whose budget is at least b; the highest level
\* of the model when there is none
SmallestAtLeast(table, m, b) ==
    IF \E l \in table : LevelBudget(l) >= b
    THEN CHOOSE l \in table :
             /\ LevelBudget(l) >= b
             /\ \A k \in table : LevelBudget(k) >= b => LevelBudget(l) <= LevelBudget(k)
    ELSE Highest(m)

ProjectedPositive == toEffort.done /\ ModelUsesThinkingLevels(thModel) /\ thBudget > 0

C7_EffortToBudgetTable ==
    toBudget.done =>
        CASE thEffort \in {"none", "None"} -> toBudget.value = 0 /\ toBudget.ok
          [] thEffort \in {"auto", "AUTO"} -> toBudget.value = -1 /\ toBudget.ok
          [] thEffort \in {"minimal", "Minimal"} -> toBudget.value = 512 /\ toBudget.ok
          [] thEffort \in {"low", "LOW"} -> toBudget.value = 1024 /\ toBudget.ok
          [] thEffort \in {"medium", "MEDIUM"} -> toBudget.value = 8192 /\ toBudget.ok
          [] thEffort \in {"high", "High"} -> toBudget.value = 24576 /\ toBudget.ok
          [] thEffort \in {"xhigh", "XHIGH"} -> toBudget.value = 32768 /\ toBudget.ok
          [] OTHER -> toBudget.value = 0 /\ ~toBudget.ok

C7_Witness == toBudget.done /\ thEffort = "MEDIUM" /\ toBudget.value = 8192 /\ toBudget.ok

LevelNames == {"minimal", "low", "medium", "high", "xhigh"}

RoundTripped == roundTrip.done /\ ModelUsesThinkingLevels(thModel) /\ thEffort \in LevelNames

AboveHighest(l, m) == LevelBudget(l) > LevelBudget(Highest(m))

DeclaresNoThinking(m) == ~ModelSupportsThinking(m) /\ ~isOpenAICompatModel(m)

\* C9: for a model that declares no thinking support the prepared body
\* carries no thinking field and no error is returned, whatever the source
\* protocol, the target protocol and the thinking suffix or raw parameter.
C9_NoThinkingModelCarriesNoThinkingField ==
    (payload.built /\ DeclaresNoThinking(targetModel)) =>
        ~payload.present /\ ~payload.err

\* an invalid level as the suffix of qwen3-code-plus, prepared for codex from
\* a protocol whose translator defaults the effort
C9_Witness ==
    /\ payload.built /\ viaSuffix /\ targetModel = "qwen3-code-plus"
    /\ fromProtocol = "openai" /\ toProtocol = "codex"
    /\ thinkingParam = EffortParam("invalid")
    /\ ~payload.present /\ ~payload.err

\* the effort of the request once parsed: the suffix's when it is a known
\* level name, the body's as it is written
RequestedEffort == IF viaSuffix THEN NormalizeThinkingModel(thinkingParam) ELSE thinkingParam

CodexLevelRequest ==
    /\ payload.built /\ toProtocol = "codex"
    /\ ModelSupportsThinking(targetModel) /\ ModelUsesThinkingLevels(targetModel)
    /\ RequestedEffort.kind = "effort" /\ RequestedEffort.effort # ""

\* C10: prepared for Codex with a level-based model, an effort name outside
\* the model's level table fails with a validation error, a name of the table
\* is emitted in lower case in reasoning.effort, and an OpenAI-compatible
\* model gets no passthrough: its body carries no effort and no error.
C10_CodexValidatesAndLowercasesEffort ==
    /\ CodexLevelRequest =>
          IF Lower(RequestedEffort.effort) \in Levels(targetModel)
          THEN /\ payload.present /\ ~payload.err
               /\ payload.value = EffortParam(Lower(RequestedEffort.effort))
          ELSE payload.err
    /\ (payload.built /\ toProtocol = "codex" /\ isOpenAICompatModel(targetModel)) =>
          ~payload.present /\ ~payload.err

\* HIGH in the body of a gpt-5 request comes out as high
C10_Witness ==
    /\ CodexLevelRequest /\ ~viaSuffix /\ targetModel = "gpt-5"
    /\ thinkingParam = EffortParam("HIGH")
    /\ payload.value = EffortParam("high") /\ ~payload.err

\* a request for the OpenAI-compatible model, prepared for openai, whose
\* thinking parameter is an effort name
CompatEffortRequest ==
    /\ payload.built /\ toProtocol = "openai" /\ isOpenAICompatModel(targetModel)
    /\ RequestedEffort.kind = "effort" /\ RequestedEffort.effort # ""

\* C11: for the OpenAI-compatible model every effort name of the client, in
\* a level table or not, is in reasoning_effort exactly as the client wrote
\* it, and no error is returned.
C11_CompatEffortPassedVerbatim ==
    CompatEffortRequest =>
        /\ payload.present /\ ~payload.err
        /\ payload.value = EffortParam(thinkingParam.effort)

\* a request with the dynamic budget -1, as suffix or in the body
DynamicBudgetRequest == payload.built /\ thinkingParam = BudgetParam(-1)

GeminiBudgetTarget ==
    /\ toProtocol = "gemini"
    /\ ModelSupportsThinking(targetModel) /\ ~ModelUsesThinkingLevels(targetModel)

OpenAILevelTarget ==
    /\ toProtocol = "openai" /\ ~isOpenAICompatModel(targetModel)
    /\ ModelSupportsThinking(targetModel) /\ ModelUsesThinkingLevels(targetModel)

Gemini3LevelAccepted ==
    \/ IsGemini3ProModel(g3Model) /\ Lower(g3Level) \in {"low", "high"}
    \/ IsGemini3FlashModel(g3Model) /\ Lower(g3Level) \in {"minimal", "low", "medium", "high"}

\* C13: ValidateGemini3ThinkingLevel accepts, in any letter case and returning
\* the lower-cased name, exactly low and high for Gemini 3 Pro and exactly
\* minimal, low, medium and high for Gemini 3 Flash; every other level and
\* every model that is not Gemini 3 yields ("", false).
C13_Gemini3LevelValidated ==
    g3Validated.done =>
        IF Gemini3LevelAccepted
        THEN g3Validated.ok /\ g3Validated.value = Lower(g3Level)
        ELSE ~g3Validated.ok /\ g3Validated.value = ""

C13_Witness ==
    /\ g3Validated.done /\ g3Model = "GEMINI-3-PRO-PREVIEW" /\ g3Level = "High"
    /\ g3Validated.ok /\ g3Validated.value = "high"

Gemini3LevelRequested == g3Metadata.set /\ IsGemini3Model(g3Model) /\ Gemini3LevelAccepted

\* C15: ApplyGemini3ThinkingLevelFromMetadata, and its CLI variant, returns the
\* body unchanged when the metadata is nil, when the model is not a Gemini 3
\* model, or when the level asked for is not accepted by the model; otherwise
\* it sets thinkingLevel to the level asked for and keeps includeThoughts.
C15_LevelAppliedOrBodyUnchanged ==
    g3Applied.done =>
        IF Gemini3LevelRequested
        THEN /\ g3Applied.body.hasLevel
             /\ g3Applied.body.level = Lower(g3Metadata.reasoning_effort)
             /\ g3Applied.body.hasInclude = g3InputBody.hasInclude
             /\ g3Applied.body.include = g3InputBody.include
        ELSE g3Applied.body = g3InputBody

C15_Witness ==
    /\ g3Applied.done /\ g3CLI /\ g3Model = "gemini-3-pro-preview"
    /\ g3Metadata = EffortMetadata("high")
    /\ g3InputBody = Body(FALSE, 0, FALSE, "", TRUE, TRUE)
    /\ g3Applied.body = Body(FALSE, 0, TRUE, "high", TRUE, TRUE)

(***************************************************************************)
(* The donation site: the claims                                           *)
(***************************************************************************)
\* request r passes through AuthMiddleware in this step
Arrives(r) == reqs[r].pc = "idle" /\ reqs'[r].pc # "idle"

\* the cookie names a stored session that has not expired
ValidSession(cookie) ==
    /\ cookie \in sessions
    /\ ~(sessionObjects[cookie].ExpiresAt < now)

\* C16: for every request to a route guarded by AuthMiddleware: when the
\* session_id cookie is missing or empty, or names no stored session, or names
\* an expired session, the answer is 401 and the handler does not run, and
\* for an unknown or expired session the cookie is cleared; otherwise the
\* stored session is put in the context of the request and the handler runs.
C16_OnlyValidSessionReachesHandler ==
    [][\A r \in 1..MaxRequests :
          Arrives(r) =>
              IF reqs'[r].cookie \in {-1, 0}
              THEN reqs'[r].pc = "done" /\ reqs'[r].status = 401
              ELSE IF ~ValidSession(reqs'[r].cookie)
              THEN reqs'[r].pc = "done" /\ reqs'[r].status = 401 /\ reqs'[r].cleared
              ELSE /\ reqs'[r].pc = "handler" /\ reqs'[r].status = 0
                   /\ reqs'[r].ctx = reqs'[r].cookie]_vars

C16_Witness ==
    \E r \in 1..MaxRequests :
        /\ reqs[r].route = "POST /donate/confirm" /\ reqs[r].cookie \in issued
        /\ sessionObjects[reqs[r].cookie].ExpiresAt < now
        /\ reqs[r].pc = "done" /\ reqs[r].status = 401 /\ reqs[r].cleared
        /\ reqs[r].addQuota = <<>>

\* the TTL the session store was constructed with
StoreTTL ==
    IF donationCfg.custom /\ donationCfg.ttl > 0 THEN donationCfg.ttl ELSE SessionTTL

\* C17: a session expires 24 hours after creation: Create sets ExpiresAt to
\* CreatedAt + TTL, where TTL is 24 hours by default and whenever a TTL that
\* is not positive was asked for, and SessionStore.Get never returns a session
\* whose ExpiresAt is before the current time: it returns nil and removes the
\* session instead.
C17_SessionExpiresAfterTTL ==
    \A t \in issued :
        /\ sessionObjects[t].ExpiresAt = sessionObjects[t].CreatedAt + StoreTTL
        /\ sessionObjects[t].ExpiresAt < now =>
               Get(t).session = 0 /\ t \notin Get(t).store

C17_Witness ==
    \E r \in 1..MaxRequests :
        /\ donationCfg.custom /\ donationCfg.ttl = -1
        /\ reqs[r].cookie \in issued /\ reqs[r].status = 401
        /\ sessionObjects[reqs[r].cookie].CreatedAt = 1
        /\ sessionObjects[reqs[r].cookie].ExpiresAt = 1 + SessionTTL
        /\ now = MaxTime
        /\ reqs[r].cookie \notin sessions

\* POST /logout has completed for the session of token t
LoggedOut(t) ==
    \E r \in 1..MaxRequests :
        /\ reqs[r].route = "POST /logout" /\ reqs[r].pc = "done"
        /\ reqs[r].status = 200 /\ reqs[r].ctx = t

\* C18: after POST /logout has completed for a session, the session is
\* destroyed: SessionStore.Get on its id returns nil from then on, so every
\* later request that carries its cookie to a guarded route is answered 401.
C18_LoggedOutSessionStaysDestroyed ==
    \A t \in Tokens : LoggedOut(t) => Get(t).session = 0

\* request r leaves the first part of HandleBind in this step
BindStep(r) ==
    /\ reqs[r].pc = "handler" /\ reqs[r].route = "POST /bind"
    /\ reqs'[r].pc # "handler"

\* the linux_do_id New-API returned is the decimal form of the Linux Do ID
SameLinuxDoID(str, id) ==
    \/ str = "7" /\ id = 7
    \/ str = "8" /\ id = 8

\* C19: POST /bind creates a binding only if the linux_do_id that New-API
\* returns for the submitted user id equals the Linux Do ID of the logged-in
\* session, an empty or non-numeric linux_do_id never counting as equal; when
\* they differ the request is rejected with 403 and neither the binding store
\* nor the session is changed.
C19_BindingOnlyForSameLinuxDoID ==
    [][\A r \in 1..MaxRequests :
          BindStep(r) =>
              /\ bindings' # bindings =>
                     /\ ~reqs'[r].newAPIUser.err
                     /\ SameLinuxDoID(reqs'[r].newAPIUser.LinuxDoID,
                                      sessionObjects[reqs[r].ctx].LinuxDoID)
              /\ /\ ~reqs'[r].newAPIUser.err
                 /\ ~SameLinuxDoID(reqs'[r].newAPIUser.LinuxDoID,
                                   sessionObjects[reqs[r].ctx].LinuxDoID)
                 => /\ reqs'[r].pc = "done" /\ reqs'[r].status = 403
                    /\ UNCHANGED <<bindings, sessionObjects, sessions>>]_vars

\* request r runs HandleDonateConfirm in this step
ConfirmStep(r) ==
    /\ reqs[r].pc = "handler" /\ reqs[r].route = "POST /donate/confirm"
    /\ reqs'[r].pc = "done"

\* the quota amount of the configuration, 2000000 when none is configured
ConfiguredQuota ==
    IF donationCfg.quota > 0 THEN donationCfg.quota ELSE DefaultQuotaAmount

\* C20: POST /donate/confirm calls AddQuota exactly once, with the configured
\* quota amount and the new-api user id bound to the session, and only when
\* the session is bound (NewAPIUserID # 0); for an unbound session it answers
\* 400 and makes no AddQuota call, and when AddQuota fails it answers 500 and
\* records a donation-failure log instead of a success log.
C20_QuotaAddedOnceForBoundSession ==
    [][\A r \in 1..MaxRequests :
          /\ reqs'[r].addQuota # reqs[r].addQuota => ConfirmStep(r)
          /\ ConfirmStep(r) =>
                IF sessionObjects[reqs[r].ctx].NewAPIUserID = 0
                THEN reqs'[r].status = 400 /\ reqs'[r].addQuota = <<>> /\ reqs'[r].logged = <<>>
                ELSE /\ Len(reqs'[r].addQuota) = 1
                     /\ reqs'[r].addQuota[1].userID = sessionObjects[reqs[r].ctx].NewAPIUserID
                     /\ reqs'[r].addQuota[1].amount = ConfiguredQuota
                     /\ IF reqs'[r].addQuota[1].err
                        THEN reqs'[r].status = 500 /\ reqs'[r].logged = <<"LogDonationError">>
                        ELSE reqs'[r].status = 200 /\ reqs'[r].logged = <<"LogDonation">>]_vars

C20_Witness ==
    \E r \in 1..MaxRequests :
        /\ reqs[r].route = "POST /donate/confirm" /\ reqs[r].pc = "done"
        /\ reqs[r].ctx \in Tokens /\ sessionObjects[reqs[r].ctx].LinuxDoID = 7
        /\ reqs[r].status = 500 /\ reqs[r].logged = <<"LogDonationError">>
        /\ reqs[r].addQuota = <<[userID |-> 3, amount |-> DefaultQuotaAmount, err |-> TRUE]>>

(***************************************************************************)
(* C21.  Admin-only checks: a session with role user is denied (403 from   *)
(* AdminOnlyMiddleware, false from CheckAdminAccess); a session with role  *)
(* admin passes every role check, whatever role is required.               *)
(***************************************************************************)
AdminOnlyCheck ==
    \/ roleCheck.check = "CheckAdminAccess"
    \/ roleCheck.check = "RoleMiddleware" /\ roleCheck.requiredRole = RoleAdmin

\* C21: every admin-only check of a user session answers 403 (CheckAdminAccess:
\* false), and every role check of an admin session lets the request through
C21_AdminOnlyDeniesUserAdmitsAdmin ==
    /\ (AdminOnlyCheck /\ roleCheck.role = RoleUser) =>
          roleCheck.result = (IF roleCheck.check = "RoleMiddleware" THEN "403" ELSE "false")
    /\ (roleCheck.check # "" /\ roleCheck.role = RoleAdmin) =>
          roleCheck.result = (IF roleCheck.check = "RoleMiddleware" THEN "Next" ELSE "true")

C21_Witness ==
    /\ roleCheck.check = "RoleMiddleware" /\ roleCheck.role = RoleAdmin
    /\ roleCheck.requiredRole = RoleUser /\ roleCheck.result = "Next"

(***************************************************************************)
(* C22.  DetermineRole: admin exactly for the ids of the admin set, or, in *)
(* the username-aware variant, for a username that matches a configured    *)
(* admin username whatever its case; user otherwise and for a nil service. *)
(***************************************************************************)
AdminByID(s, linuxDoID) == ~s.nil /\ linuxDoID \in s.adminIDs

\* strings.EqualFold(username, some configured admin username)
MatchesAdminUsername(s, username) == ~s.nil /\ Lower(username) \in s.adminUsernames

DeterminedAs(d, s, byName) ==
    /\ d.role \in {RoleUser, RoleAdmin} /\ d.byUsername \in {RoleUser, RoleAdmin}
    /\ d.role = RoleAdmin <=> AdminByID(s, d.linuxDoID)
    /\ d.byUsername = RoleAdmin <=> (AdminByID(s, d.linuxDoID) \/ byName)

\* C22 as stated: the username-aware variant answers admin for every username
\* that matches a configured admin username case-insensitively
C22_AdminIffListed ==
    [][determined' # determined =>
          DeterminedAs(determined', roleService,
                       MatchesAdminUsername(roleService, determined'.username))]_vars

\* C22: DetermineRole answers admin iff the id is in the admin id set, or (in
\* the username-aware variant) the username is not empty and matches a
\* configured admin username case-insensitively; user otherwise
C22_AdminIffListedNonEmptyUsername ==
    [][determined' # determined =>
          DeterminedAs(determined', roleService,
                       determined'.username # ""
                       /\ MatchesAdminUsername(roleService, determined'.username))]_vars

C22_Witness ==
    /\ determined.called /\ determined.username = "Alice"
    /\ determined.role = RoleUser /\ determined.byUsername = RoleAdmin
    /\ "alice" \in roleService.adminUsernames
    /\ determined.linuxDoID \notin roleService.adminIDs

(***************************************************************************)
(* C23.  The OAuth callback creates the session and sets the session       *)
(* cookie only when, in this order, there is no error parameter, the state *)
(* is not empty and equals the oauth_state cookie, the code is not empty,  *)
(* the token exchange succeeds and the user-info fetch succeeds; otherwise *)
(* it answers an error, creates no session and sets no session cookie.     *)
(***************************************************************************)
CallbackChecks(q) ==
    <<q.error = "", q.state # "" /\ q.state = q.oauth_state, q.code # "", q.exchange, q.userInfo>>

\* the first i checks of the callback hold
ChecksHold(q, i) == \A j \in 1..i : CallbackChecks(q)[j]

CallbackErrors(q) ==
    <<q.error, "invalid_state", "missing_code", "token_exchange_failed", "user_info_failed">>

CallbackStep == <<cbQuery, cbCalls, cbResponse, cbSessions>>' # <<cbQuery, cbCalls, cbResponse, cbSessions>>

Contains(calls, c) == \E i \in DOMAIN calls : calls[i] = c

\* C23: a callback creates a session and sets the session cookie only after
\* the five checks held in order; when one fails it answers that check's
\* error, makes no later call, creates no session and sets no session cookie
C23_SessionOnlyAfterAllChecks ==
    [][CallbackStep =>
          /\ (cbSessions' # cbSessions \/ cbResponse'.sessionCookie # 0) =>
                /\ ChecksHold(cbQuery', 5)
                /\ cbResponse'.status = 302
                /\ cbSessions' = cbSessions \cup {cbResponse'.sessionCookie}
                /\ cbResponse'.sessionCookie \notin cbSessions
          /\ Contains(cbCalls', "ExchangeToken") <=> ChecksHold(cbQuery', 3)
          /\ Contains(cbCalls', "GetUserInfo") <=> ChecksHold(cbQuery', 4)
          /\ Contains(cbCalls', "Create") <=> ChecksHold(cbQuery', 5)
          /\ \A i \in 1..5 :
                (ChecksHold(cbQuery', i - 1) /\ ~CallbackChecks(cbQuery')[i]) =>
                   /\ cbResponse'.status \in {400, 500}
                   /\ cbResponse'.error = CallbackErrors(cbQuery')[i]
                   /\ cbSessions' = cbSessions
                   /\ cbResponse'.sessionCookie = 0
                   /\ ~Contains(cbCalls', "SetSessionCookie")]_vars

C23_Witness ==
    /\ cbResponse.status = 302 /\ cbResponse.sessionCookie \in cbSessions
    /\ ChecksHold(cbQuery, 5) /\ Contains(cbCalls, "SetSessionCookie")
    /\ cbQuery.state = cbQuery.oauth_state /\ cbQuery.state \in OAuthStates
    /\ loginResponse.state = cbQuery.state

(***************************************************************************)
(* C24.  Binding persistence is a round trip: a new BindingStore on the    *)
(* directory of a saved file holds the mapping that was saved, Linux Do ID *)
(* to new-api user id and instant of binding, one binding per Linux Do ID. *)
(***************************************************************************)
\* the mapping a set of bindings stands for
Mapping(values) == {<<b.LinuxDoID, b.NewAPIUserID, b.BoundAt.wall>> : b \in values}

OnePerLinuxDoID(values) ==
    \A b1, b2 \in values : b1.LinuxDoID = b2.LinuxDoID => b1 = b2

\* C24: after NewBindingStore has read the file, the store holds the mapping
\* of the last successful save, with at most one binding per Linux Do ID
C24_SavedBindingsLoadEqual ==
    /\ bindLast.op = "NewBindingStore" =>
          /\ Mapping(storeBindings) = Mapping(bindSaved)
          /\ OnePerLinuxDoID(storeBindings)
    /\ bindingsJSON.exists =>
          /\ Mapping(load(bindingsJSON)) = Mapping(bindSaved)
          /\ \A i, j \in DOMAIN bindingsJSON.Bindings :
                bindingsJSON.Bindings[i].linux_do_id = bindingsJSON.Bindings[j].linux_do_id => i = j

C24_Witness ==
    /\ bindLast.op = "NewBindingStore" /\ Cardinality(storeBindings) = 2
    /\ \E b \in bindSaved : b.BoundAt.mono /\ b.BoundAt.wall = 2

(***************************************************************************)
(* C25.  BindingStore.Create returns an error when the Linux Do user       *)
(* already has a binding, and leaves that binding as it was.               *)
(***************************************************************************)
\* C25: a Create for a Linux Do ID that was bound before the call returns an
\* error, and the binding of that id is the one from before the call
C25_CreateRejectsExistingBinding ==
    (bindLast.op = "Create" /\ bindLast.previous # {}) =>
       /\ bindLast.err
       /\ GetByLinuxDoID(storeBindings, bindLast.binding.LinuxDoID) = bindLast.previous

(***************************************************************************)
(* C26.  The composite edge is the composition of its two parts, and the   *)
(* caller's bytes are as they were.                                        *)
(***************************************************************************)
\* C26: ConvertOpenAIResponsesRequestToAntigravity(m, raw, s) returns
\* ConvertGeminiRequestToAntigravity(m, ConvertOpenAIResponsesRequestToGemini(m, raw, s), s)
\* and leaves the caller's byte slice unmodified
C26_CompositeEdgeIsComposition ==
    trResult.done =>
       /\ trResult.value =
             ConvertGeminiRequestToAntigravity(
                 trInput.modelName,
                 ConvertOpenAIResponsesRequestToGemini(
                     trInput.modelName, trInput.inputRawJSON, trInput.stream),
                 trInput.stream)
       /\ trHeap[CallerSlice] = trInput.inputRawJSON

C26_Witness ==
    /\ trResult.done /\ trInput.inputRawJSON = "tools" /\ trInput.stream
    /\ trHeap[Clone(CallerSlice)] = Overwritten /\ trHeap[GeminiSlice] = Overwritten
    /\ trHeap[CallerSlice] = "tools"

(***************************************************************************)
(* C27.  Loading a file with legacy and new key fields loses no key, keeps *)
(* no key twice, keeps the legacy keys of an openai-compatibility entry    *)
(* with that entry, and leaves no legacy field name in the file.           *)
(***************************************************************************)
\* the keys a sequence of loaded entries holds, and whether none is held twice
LoadedKeys(entries) == {entries[i].APIKey : i \in DOMAIN entries}
NoDuplicate(entries) == \A i, j \in DOMAIN entries : entries[i].APIKey = entries[j].APIKey => i = j

\* the distinct keys of a new and a legacy field of the file
WrittenKeys(object, new, legacy) ==
    KeysOf(FieldOr(object, new)) \cup {FieldOr(object, legacy)[i] : i \in DOMAIN FieldOr(object, legacy)}

NoCredentialPresented(r) ==
    /\ r.authorization = <<>> /\ r.goog = <<>> /\ r.anthropic = <<>>
    /\ r.queryKey = <<>> /\ r.queryAuthToken = <<>>

\* the outcome the four rules give, taken in their order
ExpectedOutcome(r) ==
    IF keys = {} THEN "not_handled"
    ELSE IF NoCredentialPresented(r) THEN "no_credentials"
    ELSE IF \E i \in 1..5 : Matches(PresentedOrRaw(r), i) THEN "ok"
    ELSE "invalid_credential"

\* C28: Authenticate ends in exactly one of not_handled (no non-empty
\* configured key, whatever the request carries), no_credentials (all five
\* locations empty), ok (a presented value is a configured key) and
\* invalid_credential (otherwise), decided in this order
C28_FourOutcomesInOrder ==
    authResult # NoResult =>
       /\ authResult.outcome \in {"not_handled", "no_credentials", "ok", "invalid_credential"}
       /\ authResult.outcome = ExpectedOutcome(request)
       /\ authResult.outcome = "ok" <=> authResult.principal \in keys

C28_Witness ==
    /\ authResult.outcome = "not_handled" /\ keys = {} /\ NoCredentialPresented(request)

(***************************************************************************)
(* C29.  A provider that cannot be built fails the whole reload: nothing   *)
(* is returned but the error, SetProviders is not called, the manager      *)
(* keeps its providers.                                                    *)
(***************************************************************************)
Unbuildable(c) == \E i \in DOMAIN c.Providers : c.Providers[i].Type \notin RegisteredTypes

\* C29: when building a provider fails, ReconcileProviders returns the error
\* with a nil result and nil change lists, ApplyAccessProviders returns
\* (false, error), and the manager holds exactly the providers it held before
C29_BuildErrorKeepsProviders ==
    /\ reconciled.err =>
          /\ reconciled.nil /\ reconciled.result = <<>>
          /\ reconciled.added = <<>> /\ reconciled.updated = <<>> /\ reconciled.removed = <<>>
          /\ applied = [changed |-> FALSE, err |-> TRUE]
          /\ manager = existing
    /\ (~cfg.nil /\ Unbuildable(cfg)) => reconciled.err

C29_Witness ==
    /\ reconciled.err /\ Len(manager) = 2 /\ manager = existing
    /\ ~cfg.nil /\ Len(cfg.Providers) = 2 /\ Unbuildable(cfg) /\ ~Unbuildable(oldCfg)
    /\ cfg.Providers[1].Type = AccessProviderTypeConfigAPIKey

(***************************************************************************)
(* C30.  A response that is not a stream is held back until Flush, and     *)
(* the client then has all written bytes, model fields rewritten, once.    *)
(***************************************************************************)
\* the bytes with every model field carrying the original model
WithOriginalModel(data) ==
    IF originalModel = "" THEN data
    ELSE [i \in DOMAIN data |->
             IF data[i].k = "field" /\ data[i].path \in PathSet
             THEN [data[i] EXCEPT !.val = originalModel]
             ELSE data[i]]

\* C30: for a non-streaming response the client has no byte before the first
\* Flush, and after every Flush it has received exactly the bytes written so
\* far, model fields rewritten, once
C30_BufferedBodyDeliveredOnce ==
    [][~IsStreamType(contentType) =>
          /\ flushes' = 0 => client' = <<>>
          /\ flushes' # flushes => client' = WithOriginalModel(written')]_vars

====
